---- MODULE Spec2Model ----
(***************************************************************************)
(* Crystal Realms (src/index.tsx): the progression model, the upgrade      *)
(* catalog, the PvE combat state machine, the PvP arena and the            *)
(* persistence adapter, as one state machine.                              *)
(*                                                                         *)
(* Units.  JavaScript numbers that take fractional values are kept as      *)
(* scaled integers, so that every operation below is exact:                *)
(*   - player health (gameState.playerHealth, gameState.playerMaxHealth,   *)
(*     pvpState.playerHealth, pvpState.playerMaxHealth) is in HALF points: *)
(*     HP(n) is n health points.  The arena heal adds maxHealth * 0.5 once *)
(*     the Ring of Regeneration is owned, which is a half for odd          *)
(*     maxHealth; nothing in the program produces a finer fraction.        *)
(*   - xpBonusMultiplier is in tenths (10 is 1.0, 11 is 1.1),              *)
(*     damageReduction in hundredths (5 is 0.05), arenaHealBonus and       *)
(*     enemyDiamondDoubleChance in tenths (1 is 0.1).                      *)
(* Math.random() is a nondeterministic choice over its outcomes.           *)
(* Spec is the game of one day: portals, PvE combat, the shop, the arena   *)
(* and page loads.  Over the same variables, SpecDaily is the daily        *)
(* reward (it needs the calendar to advance), SpecAi the Wise Crystal next *)
(* to the arena, SpecLevelUp the experience gain, SpecBaseline the replay  *)
(* of the purchased upgrades, SpecFunds every operation that debits or     *)
(* grants diamonds, and SpecPve portals and combat for players whose       *)
(* upgrades and buffs show in them, each on its own.  SpecTimer leaves a   *)
(* PvE combat to the enemy's timer, which it takes to be weakly fair.      *)
(***************************************************************************)
EXTENDS Integers, FiniteSets, Sequences, TLC

\* ------------------------------------------------------------------------
\* GAME_CONFIG (src/index.tsx:61-101)
\* ------------------------------------------------------------------------
PLAYER_BASE_HEALTH == 100
HEALTH_PER_LEVEL == 15
XP_TO_LEVEL_1 == 100
LEVEL_UP_DIAMOND_REWARD_MULTIPLIER == 25
PORTAL_BASE_MIN_DIAMONDS == 1
PORTAL_BASE_MAX_DIAMONDS == 5
PORTAL_XP_REWARD == 10
ENEMY_BASE_HEALTH == 10
ENEMY_HEALTH_PER_LEVEL == 5
ENEMY_DIAMOND_REWARD_MULTIPLIER == 10
ENEMY_DIAMOND_REWARD_BASE_MULTIPLIER == 5
ENEMY_XP_REWARD_MULTIPLIER == 25
PLAYER_ENEMY_ATTACK_MULTIPLIER == 2
ENEMY_BASE_DAMAGE == 3
ENEMY_DAMAGE_PER_LEVEL == 1
PLAYER_ARENA_ATTACK_BASE == 2
PLAYER_ARENA_ATTACK_MULTIPLIER == 4
OPPONENT_ATTACK_MULTIPLIER == 3
OPPONENT_BASE_HEALTH == 80
OPPONENT_HEALTH_PER_LEVEL == 20
ARENA_XP_REWARD_MULTIPLIER == 15
ARENA_DIAMOND_REWARD_MULTIPLIER == 10
PVP_HEAL_COST == 25
CRYSTAL_BASE_COST == 20
CRYSTAL_COST_PER_LEVEL == 5
API_COOLDOWN_MS == 60000

\* ------------------------------------------------------------------------
\* Bounds of the model (not program constants)
\* ------------------------------------------------------------------------
\* events (handler runs, timer callbacks, settled calls) in one run
MaxSteps == 6
\* the highest level the opponent generator answers with
MaxGeneratedLevel == 2

\* the highest level a player of the experience-gain specification starts at
MaxStartLevel == 2

\* ------------------------------------------------------------------------
\* Helpers
\* ------------------------------------------------------------------------
\* n health points in the model's unit (half points)
HP(n) == 2 * n

Max(a, b) == IF a >= b THEN a ELSE b

Min(a, b) == IF a <= b THEN a ELSE b

\* Math.floor(Math.random() * n) for an integer n >= 1: of its outcomes 0 .. n - 1
\* the model draws the two extreme ones
RandomBelow(n) == { 0, n - 1 }

\* a uniform integer draw in lo .. hi: the model draws the two extreme outcomes
RandomBetween(lo, hi) == { lo, hi }

\* Math.random() < p, for p given as a numerator over a positive denominator:
\* either outcome when 0 < p < 1, never true when p = 0
Chance(p) == IF p > 0 THEN BOOLEAN ELSE {FALSE}


\* ------------------------------------------------------------------------
\* State
\* ------------------------------------------------------------------------
VARIABLES
    gameState,      \* the PlayerState aggregate (let gameState)
    shopItems,      \* item id -> isPurchased (the mutable part of let shopItems)
    enemy,          \* the PvE encounter (let enemy)
    pvpState,       \* the arena state (let pvpState)
    apiCooldowns,   \* feature -> time in ms at which its cooldown ends
    storage,        \* localStorage['crystalRealmsSave']: << >> or <<save>>
    intervals,      \* ids of the enemyAttack intervals that are scheduled
    now,            \* Date.now(), in ms
    screen,         \* the active screen: "login" or "game"
    elements,       \* the DOM state that gates triggers (hidden, disabled)
    ai,             \* whether the GoogleGenAI client exists (let ai)
    tasks,          \* asynchronous work in flight: awaited calls and timers
    stamped,        \* history, not read by the program: when lastLoginDate was
                    \* last stamped, and the streak at that moment
    steps           \* events this run has seen (bounded)

\* ------------------------------------------------------------------------
\* Progression model
\* ------------------------------------------------------------------------
NoBuffs == [b \in {} |-> 0]

getInitialGameState ==
    [ name |-> "Hero",
      level |-> 1,
      xp |-> 0,
      xpToNextLevel |-> XP_TO_LEVEL_1,
      diamonds |-> 0,
      portalMinBonus |-> 0,
      portalMaxBonus |-> 0,
      inCombat |-> FALSE,
      playerHealth |-> HP(PLAYER_BASE_HEALTH),
      playerMaxHealth |-> HP(PLAYER_BASE_HEALTH),
      lastLoginDate |-> << >>,
      streak |-> 0,
      golemAttackBonus |-> 0,
      xpBonusMultiplier |-> 10,
      activeBuffs |-> NoBuffs,
      damageReduction |-> 0,
      arenaHealBonus |-> 0,
      enemyDiamondDoubleChance |-> 0 ]

\* Math.floor(xpToNextLevel * XP_LEVEL_MULTIPLIER), XP_LEVEL_MULTIPLIER = 1.5
NextThreshold(t) == (t * 3) \div 2

\* faulty variant of checkLevelUp: the threshold is never evaluated
checkLevelUpSkipped(gs) == gs

\* faulty variant of checkLevelUp: a level-up leaves playerMaxHealth as it was
RECURSIVE checkLevelUpKeepingMaxHealth(_)
checkLevelUpKeepingMaxHealth(gs) ==
    IF gs.xp >= gs.xpToNextLevel
    THEN checkLevelUpKeepingMaxHealth(
           [gs EXCEPT !.level = @ + 1,
                      !.xp = @ - gs.xpToNextLevel,
                      !.xpToNextLevel = NextThreshold(@),
                      !.playerHealth = gs.playerMaxHealth,
                      !.diamonds = @ + (gs.level + 1) * LEVEL_UP_DIAMOND_REWARD_MULTIPLIER])
    ELSE gs

\* faulty variant of checkLevelUp: the threshold is evaluated once, not again
\* after a level-up
checkLevelUpOnce(gs) ==
    IF gs.xp >= gs.xpToNextLevel
    THEN [gs EXCEPT !.level = @ + 1,
                    !.xp = @ - gs.xpToNextLevel,
                    !.xpToNextLevel = NextThreshold(@),
                    !.playerMaxHealth = @ + HP(HEALTH_PER_LEVEL),
                    !.playerHealth = gs.playerMaxHealth + HP(HEALTH_PER_LEVEL),
                    !.diamonds = @ + (gs.level + 1) * LEVEL_UP_DIAMOND_REWARD_MULTIPLIER]
    ELSE gs

RECURSIVE checkLevelUp(_)
checkLevelUp(gs) ==
    IF gs.xp >= gs.xpToNextLevel
    THEN checkLevelUp(
           [gs EXCEPT !.level = @ + 1,
                      !.xp = @ - gs.xpToNextLevel,
                      !.xpToNextLevel = NextThreshold(@),
                      !.playerMaxHealth = @ + HP(HEALTH_PER_LEVEL),
                      !.playerHealth = gs.playerMaxHealth + HP(HEALTH_PER_LEVEL),
                      !.diamonds = @ + (gs.level + 1) * LEVEL_UP_DIAMOND_REWARD_MULTIPLIER])
    ELSE gs

HasBuff(gs, b) == b \in DOMAIN gs.activeBuffs

\* effectiveMultiplier, in tenths
EffectiveMultiplier(gs) ==
    IF HasBuff(gs, "xp_boost") THEN gs.xpBonusMultiplier * 2 ELSE gs.xpBonusMultiplier

gainXP(gs, amount) ==
    checkLevelUp([gs EXCEPT !.xp = @ + ((amount * EffectiveMultiplier(gs)) \div 10)])

\* ------------------------------------------------------------------------
\* Upgrade / consumable catalog
\* ------------------------------------------------------------------------
\* the catalog, in the order of the shopItems array
Catalog ==
    << "crystal_magnet", "explorers_charm", "golem_heart", "scroll_of_wisdom",
       "aegis_of_valor", "ring_of_regeneration", "lucky_doubloon", "potion_xp_boost" >>

ItemIds == { Catalog[i] : i \in 1 .. Len(Catalog) }

cost(id) ==
    CASE id = "crystal_magnet" -> 50
      [] id = "explorers_charm" -> 100
      [] id = "golem_heart" -> 150
      [] id = "scroll_of_wisdom" -> 250
      [] id = "aegis_of_valor" -> 300
      [] id = "ring_of_regeneration" -> 200
      [] id = "lucky_doubloon" -> 400
      [] id = "potion_xp_boost" -> 75

isConsumable(id) == id = "potion_xp_boost"

SetBuff(buffs, b, duration) ==
    [k \in DOMAIN buffs \cup {b} |-> IF k = b THEN duration ELSE buffs[k]]

DeleteBuff(buffs, b) == [k \in DOMAIN buffs \ {b} |-> buffs[k]]

applyEffect(id, gs) ==
    CASE id = "crystal_magnet" -> [gs EXCEPT !.portalMinBonus = @ + 2]
      [] id = "explorers_charm" -> [gs EXCEPT !.portalMaxBonus = @ + 5]
      [] id = "golem_heart" -> [gs EXCEPT !.golemAttackBonus = @ + 3]
      [] id = "scroll_of_wisdom" -> [gs EXCEPT !.xpBonusMultiplier = @ + 1]
      [] id = "aegis_of_valor" -> [gs EXCEPT !.damageReduction = @ + 5]
      [] id = "ring_of_regeneration" -> [gs EXCEPT !.arenaHealBonus = @ + 1]
      [] id = "lucky_doubloon" -> [gs EXCEPT !.enemyDiamondDoubleChance = @ + 1]
      [] id = "potion_xp_boost" ->
           [gs EXCEPT !.activeBuffs = SetBuff(@, "xp_boost", 5)]

NoneBought == [id \in ItemIds |-> FALSE]

\* the reset of the seven derived bonuses to getInitialGameState()'s values
ResetBonuses(gs) ==
    [gs EXCEPT !.portalMinBonus = getInitialGameState.portalMinBonus,
               !.portalMaxBonus = getInitialGameState.portalMaxBonus,
               !.golemAttackBonus = getInitialGameState.golemAttackBonus,
               !.xpBonusMultiplier = getInitialGameState.xpBonusMultiplier,
               !.damageReduction = getInitialGameState.damageReduction,
               !.arenaHealBonus = getInitialGameState.arenaHealBonus,
               !.enemyDiamondDoubleChance = getInitialGameState.enemyDiamondDoubleChance]

\* faulty variant of ApplyFrom: consumables are replayed as well
RECURSIVE ApplyFromWithConsumables(_, _, _)
ApplyFromWithConsumables(i, gs, items) ==
    IF i > Len(Catalog) THEN gs
    ELSE ApplyFromWithConsumables(i + 1,
                                  IF items[Catalog[i]]
                                  THEN applyEffect(Catalog[i], gs) ELSE gs,
                                  items)

\* shopItems.forEach from catalog position i on
RECURSIVE ApplyFrom(_, _, _)
ApplyFrom(i, gs, items) ==
    IF i > Len(Catalog) THEN gs
    ELSE ApplyFrom(i + 1,
                   IF items[Catalog[i]] /\ ~isConsumable(Catalog[i])
                   THEN applyEffect(Catalog[i], gs) ELSE gs,
                   items)

\* faulty variant of applyAllPurchasedItemEffects: no reset before the replay
ApplyWithoutReset(gs, items) == ApplyFrom(1, gs, items)

applyAllPurchasedItemEffects(gs, items) == ApplyFrom(1, ResetBonuses(gs), items)


\* ------------------------------------------------------------------------
\* Save and load
\* ------------------------------------------------------------------------
DAY_MS == 24 * 60 * 60 * 1000

\* new Date().toISOString().split('T')[0], as a day number
Today(t) == t \div DAY_MS

\* const twoDays = 1000 * 60 * 60 * 48
TwoDays == 1000 * 60 * 60 * 48

\* the blob saveGameState() writes
SaveOf(gs, items) == << [gameState |-> gs, shopItems |-> items] >>

\* loadGameState()'s inactivity test on a stored blob
IsStale(save, t) ==
    /\ save.gameState.lastLoginDate # << >>
    /\ t - save.gameState.lastLoginDate[1] * DAY_MS > TwoDays

\* the gameState loadGameState() builds from a stored blob: merge on the defaults
\* (every save the program writes holds every field), recompute playerMaxHealth,
\* clamp playerHealth, replay the purchased items
LoadedGameState(save) ==
    LET maxHealth == HP(PLAYER_BASE_HEALTH + (save.gameState.level - 1) * HEALTH_PER_LEVEL)
        merged == [save.gameState EXCEPT
                     !.playerMaxHealth = maxHealth,
                     !.playerHealth = IF @ > maxHealth THEN maxHealth ELSE @]
    IN applyAllPurchasedItemEffects(merged, save.shopItems)

\* loadGameState()'s return value
HasSave(store, t) == store # << >> /\ ~IsStale(store[1], t)

\* checkDailyReward()'s update of the streak
checkDailyReward(gs, t) ==
    IF gs.lastLoginDate # << Today(t) >>
    THEN IF gs.lastLoginDate # << >>
         THEN IF << Today(t) - 1 >> = gs.lastLoginDate
              THEN [gs EXCEPT !.streak = @ + 1]
              ELSE [gs EXCEPT !.streak = 1]
         ELSE [gs EXCEPT !.streak = 1]
    ELSE gs

\* ------------------------------------------------------------------------
\* The page: what a (re)load of the document leaves in memory
\* ------------------------------------------------------------------------
InitialEnemy ==
    [name |-> "", health |-> 0, maxHealth |-> 0, level |-> 1, type |-> "",
     attackIntervalId |-> 0]

InitialPvpState ==
    [playerHealth |-> 0, playerMaxHealth |-> 0, opponentHealth |-> 0,
     opponentMaxHealth |-> 0, opponentName |-> "", opponentLevel |-> 1,
     opponentNextMove |-> "null", isPlayerTurn |-> TRUE, isGameOver |-> FALSE,
     playerAction |-> "null"]

\* the DOM as the document declares it: the arena modal hidden, its buttons
\* not yet shown or disabled
InitialElements ==
    [ pvpModal |-> [hidden |-> TRUE],
      pvpActions |-> [shown |-> FALSE],
      pvpHealBtn |-> [disabled |-> FALSE],
      arenaBtn |-> [disabled |-> FALSE],
      crystalBtn |-> [disabled |-> FALSE],
      crystalModal |-> [hidden |-> TRUE],
      askCrystalBtn |-> [disabled |-> FALSE],
      crystalResponseArea |-> [shows |-> "greeting"],
      dailyRewardModal |-> [hidden |-> TRUE],
      claimRewardBtn |-> [disabled |-> FALSE] ]

\* nothing awaited, no timer pending
NoTasks ==
    [ aiWaiter |-> "none",      \* the handler awaiting initializeAi(), if any
      arenaRequests |-> 0,      \* opponent-generation calls awaited
      resolveTimers |-> 0,      \* setTimeout(resolvePvpTurn, 1000) pending
      arenaCooldownIntervals |-> 0,   \* setApiCooldown('arena') intervals running
      crystalRequests |-> << >>,      \* the cost paid for each crystal answer awaited
      crystalCooldownIntervals |-> 0 ]  \* setApiCooldown('crystal') intervals running

\* openDailyRewardModal() on the DOM state els
openDailyRewardModal(els) ==
    [els EXCEPT !.claimRewardBtn.disabled = FALSE,
                !.dailyRewardModal.hidden = FALSE]

\* the module's top-level initialisers followed by initGame(), on the stored blob
\* at time t: what is in memory (and left in storage) once the page has loaded
LoadedPage(store, t) ==
    [ gameState |-> IF HasSave(store, t)
                    THEN checkDailyReward(LoadedGameState(store[1]), t)
                    ELSE getInitialGameState,
      elements |-> IF HasSave(store, t)
                      /\ LoadedGameState(store[1]).lastLoginDate # << Today(t) >>
                   THEN openDailyRewardModal(InitialElements)
                   ELSE InitialElements,
      shopItems |-> IF HasSave(store, t) THEN store[1].shopItems ELSE NoneBought,
      storage |-> IF store # << >> /\ IsStale(store[1], t) THEN << >> ELSE store,
      screen |-> IF HasSave(store, t) THEN "game" ELSE "login" ]

\* ------------------------------------------------------------------------
\* Variable groups
\* ------------------------------------------------------------------------
vars ==
    << gameState, shopItems, enemy, pvpState, apiCooldowns, storage, intervals,
       now, screen, elements, ai, tasks, stamped, steps >>

pveVars == << enemy, intervals >>

arenaVars == << pvpState, apiCooldowns, elements, ai, tasks >>

pageVars == << now, screen, stamped >>

\* one more event of the run
Step == steps < MaxSteps /\ steps' = steps + 1

\* ------------------------------------------------------------------------
\* PvE combat
\* ------------------------------------------------------------------------
EnemyTypes == { "golem", "lurker", "elemental" }

EnemyName(type) ==
    CASE type = "golem" -> "Crystal Golem"
      [] type = "lurker" -> "Shadow Lurker"
      [] type = "elemental" -> "Crystal Elemental"

\* the id setInterval() returns: one that no scheduled interval has
FreshIntervalId == CHOOSE i \in 1 .. (Cardinality(intervals) + 1) : i \notin intervals

\* faulty variant of ClearInterval: the interval stays scheduled
KeepInterval(ids, id) == ids

\* clearInterval(id): a no-op on null (0)
ClearInterval(ids, id) == ids \ {id}

\* startCombat() with gs the current gameState, the chosen archetype and the
\* level roll Math.floor(Math.random() * 3)
startCombat(gs, type, roll) ==
    LET lvl == Max(1, gs.level + roll - 1)
        maxHealth == ENEMY_BASE_HEALTH + (lvl - 1) * ENEMY_HEALTH_PER_LEVEL
    IN /\ gameState' = [gs EXCEPT !.inCombat = TRUE]
       /\ enemy' = [name |-> EnemyName(type), health |-> maxHealth,
                    maxHealth |-> maxHealth, level |-> lvl, type |-> type,
                    attackIntervalId |-> FreshIntervalId]
       /\ intervals' = intervals \cup {FreshIntervalId}

\* endCombat() with gs and en the current gameState and enemy
endCombat(gs, en) ==
    /\ gameState' = [gs EXCEPT !.inCombat = FALSE]
    /\ intervals' = ClearInterval(intervals, en.attackIntervalId)
    /\ enemy' = [en EXCEPT !.attackIntervalId = 0]
    /\ storage' = SaveOf([gs EXCEPT !.inCombat = FALSE], shopItems)

\* faulty variant of ConsumeBoost: the buff is removed one portal too late
ConsumeBoostKeptAtZero(gs) ==
    IF HasBuff(gs, "xp_boost")
    THEN IF gs.activeBuffs["xp_boost"] - 1 < 0
         THEN [gs EXCEPT !.activeBuffs = DeleteBuff(@, "xp_boost")]
         ELSE [gs EXCEPT !.activeBuffs["xp_boost"] = @ - 1]
    ELSE gs

\* the xp_boost bookkeeping of enterPortal()
ConsumeBoost(gs) ==
    IF HasBuff(gs, "xp_boost")
    THEN IF gs.activeBuffs["xp_boost"] - 1 <= 0
         THEN [gs EXCEPT !.activeBuffs = DeleteBuff(@, "xp_boost")]
         ELSE [gs EXCEPT !.activeBuffs["xp_boost"] = @ - 1]
    ELSE gs

\* faulty variant of PortalReward: the experience is not granted
PortalRewardWithoutXp(gs, diamondsFound) ==
    ConsumeBoost([gs EXCEPT !.diamonds = @ + diamondsFound])

\* gameState after enterPortal()'s reward part, diamondsFound being the draw
PortalReward(gs, diamondsFound) ==
    ConsumeBoost(gainXP([gs EXCEPT !.diamonds = @ + diamondsFound], PORTAL_XP_REWARD))

\* faulty variant of enterPortal: the early return in combat is missing
enterPortalUnguarded ==
    /\ screen = "game"
    /\ Step
    /\ \E diamondsFound \in
            RandomBetween(PORTAL_BASE_MIN_DIAMONDS + gameState.portalMinBonus,
                          PORTAL_BASE_MAX_DIAMONDS + gameState.portalMaxBonus) :
         LET gs == PortalReward(gameState, diamondsFound)
         IN /\ storage' = SaveOf(gs, shopItems)
            /\ \/ /\ gameState' = gs
                  /\ UNCHANGED pveVars
               \/ \E type \in EnemyTypes, roll \in RandomBelow(3) :
                     startCombat(gs, type, roll)
    /\ UNCHANGED << shopItems, arenaVars, pageVars >>

enterPortal ==
    /\ screen = "game"
    /\ IF gameState.inCombat
       THEN UNCHANGED vars
       ELSE /\ Step
            /\ \E diamondsFound \in
                    RandomBetween(PORTAL_BASE_MIN_DIAMONDS + gameState.portalMinBonus,
                                  PORTAL_BASE_MAX_DIAMONDS + gameState.portalMaxBonus) :
                 LET gs == PortalReward(gameState, diamondsFound)
                 IN /\ storage' = SaveOf(gs, shopItems)
                    /\ \/ \* Math.random() >= COMBAT_CHANCE
                          /\ gameState' = gs
                          /\ UNCHANGED pveVars
                       \/ \* Math.random() < COMBAT_CHANCE
                          \E type \in EnemyTypes, roll \in RandomBelow(3) :
                             startCombat(gs, type, roll)
            /\ UNCHANGED << shopItems, arenaVars, pageVars >>

\* faulty variant of DiamondReward: the reward is doubled whatever the roll
DiamondRewardAlwaysDoubled(en, bonusRoll, doubled) ==
    (en.level * ENEMY_DIAMOND_REWARD_MULTIPLIER + bonusRoll) * 2

\* the currency reward of a defeated enemy: the bounded random term and the
\* Lucky Doubloon doubling
DiamondReward(en, bonusRoll, doubled) ==
    (en.level * ENEMY_DIAMOND_REWARD_MULTIPLIER + bonusRoll) * (IF doubled THEN 2 ELSE 1)

\* faulty variant of AttackDamage: the level term is left out
AttackDamageRollOnly(gs, en, roll) ==
    roll + (IF en.type = "golem" THEN gs.golemAttackBonus ELSE 0)

\* the damage of one player attack on the enemy
AttackDamage(gs, en, roll) ==
    gs.level * PLAYER_ENEMY_ATTACK_MULTIPLIER + roll
    + (IF en.type = "golem" THEN gs.golemAttackBonus ELSE 0)

attackEnemy ==
    /\ screen = "game"
    /\ IF ~gameState.inCombat
       THEN UNCHANGED vars
       ELSE \/ \* Math.random() < LURKER_DODGE_CHANCE: the lurker dodges
               /\ enemy.type = "lurker"
               /\ UNCHANGED vars
            \/ \E roll \in RandomBelow(5) :
                 LET en == [enemy EXCEPT !.health = @ - AttackDamage(gameState, enemy, roll)]
                 IN IF en.health <= 0
                    THEN \E bonusRoll \in RandomBelow(en.level * ENEMY_DIAMOND_REWARD_BASE_MULTIPLIER),
                            doubled \in Chance(gameState.enemyDiamondDoubleChance) :
                           /\ endCombat(
                                gainXP([gameState EXCEPT !.diamonds =
                                          @ + DiamondReward(en, bonusRoll, doubled)],
                                       en.level * ENEMY_XP_REWARD_MULTIPLIER),
                                en)
                           /\ Step
                           /\ UNCHANGED << shopItems, arenaVars, pageVars >>
                    ELSE /\ enemy' = en
                         /\ Step
                         /\ UNCHANGED << gameState, shopItems, storage, intervals,
                                         arenaVars, pageVars >>

\* faulty variant of EnemyDamage: the damage reduction is not applied
EnemyDamageUnreduced(en, gs, special) ==
    LET base == ENEMY_BASE_DAMAGE + (en.level - 1) * ENEMY_DAMAGE_PER_LEVEL
    IN Max(1, (base * (IF special THEN 3 ELSE 2)) \div 2)

\* the damage of one enemy attack, in health points: the elemental special
\* multiplies by 1.5, the damage reduction (hundredths) scales, then
\* Math.max(1, Math.floor(damage))
EnemyDamage(en, gs, special) ==
    LET base == ENEMY_BASE_DAMAGE + (en.level - 1) * ENEMY_DAMAGE_PER_LEVEL
    IN Max(1, (base * (IF special THEN 3 ELSE 2) * (100 - gs.damageReduction)) \div 200)

\* faulty variant of Defeated: the player is not respawned
DefeatedUnrevived(gs) == [gs EXCEPT !.diamonds = @ \div 2]

\* gameState after the defeat branch of enemyAttack(), before endCombat()
Defeated(gs) ==
    [gs EXCEPT !.diamonds = @ \div 2,
               !.playerHealth = HP((gs.playerMaxHealth \div 2) \div 4)]

\* enemyAttack() past its early return: the hit, and the defeat if it comes
enemyHits ==
    /\ \E special \in (IF enemy.type = "elemental" THEN BOOLEAN ELSE {FALSE}) :
         LET hit == [gameState EXCEPT
                       !.playerHealth = @ - HP(EnemyDamage(enemy, gameState, special))]
         IN IF hit.playerHealth <= 0
            THEN endCombat(Defeated(hit), enemy)
            ELSE /\ gameState' = hit
                 /\ UNCHANGED << enemy, storage, intervals >>
    /\ UNCHANGED << shopItems, arenaVars, pageVars >>

\* the callback of a scheduled interval
enemyAttack ==
    /\ intervals # {}
    /\ IF ~gameState.inCombat \/ enemy.health <= 0
       THEN UNCHANGED vars
       ELSE /\ Step
            /\ enemyHits

\* ------------------------------------------------------------------------
\* Shop
\* ------------------------------------------------------------------------
\* faulty variant of CanBuy: an owned upgrade can be bought again
CanBuyAgain(gs, items, id) == gs.diamonds >= cost(id)

\* faulty variant of CanBuy: the currency is not compared with the cost
CanBuyOnCredit(gs, items, id) == ~items[id] \/ isConsumable(id)

\* whether buyItem(item) goes through
CanBuy(gs, items, id) == gs.diamonds >= cost(id) /\ (~items[id] \/ isConsumable(id))

\* gameState after a purchase that goes through
Bought(gs, id) == applyEffect(id, [gs EXCEPT !.diamonds = @ - cost(id)])

buyItem ==
    /\ screen = "game"
    /\ \/ \E id \in ItemIds :
            /\ CanBuy(gameState, shopItems, id)
            /\ gameState' = Bought(gameState, id)
            /\ shopItems' = IF isConsumable(id) THEN shopItems
                            ELSE [shopItems EXCEPT ![id] = TRUE]
            /\ storage' = SaveOf(gameState', shopItems')
            /\ Step
            /\ UNCHANGED << pveVars, arenaVars, pageVars >>
       \/ \* an item that cannot be bought: a notification at most
          /\ { id \in ItemIds : ~CanBuy(gameState, shopItems, id) } # {}
          /\ UNCHANGED vars


\* ------------------------------------------------------------------------
\* PvP arena
\* ------------------------------------------------------------------------
\* the distinct values of telegraphOpponentMove()'s moves array
OpponentMoves == { "Attack", "Power Attack", "Block" }

PlayerActions == { "Attack", "Block", "Heal" }

\* the levels the opponent generator may answer with
GeneratedLevels == 0 .. MaxGeneratedLevel

\* openArenaModal() from its cooldown test to the opponent-generation call,
\* tk being the tasks left by what ran before it
openArenaGate(tk) ==
    IF apiCooldowns.arena > now
    THEN /\ tasks' = tk
         /\ UNCHANGED elements
    ELSE /\ elements' = [elements EXCEPT !.pvpModal.hidden = FALSE,
                                         !.pvpActions.shown = FALSE]
         /\ tasks' = [tk EXCEPT !.arenaRequests = @ + 1]

\* a click on the arena button: openArenaModal() up to where it first waits
openArenaModal ==
    /\ screen = "game"
    /\ ~elements.arenaBtn.disabled
    /\ IF ai
       THEN IF apiCooldowns.arena > now
            THEN UNCHANGED vars
            ELSE /\ openArenaGate(tasks)
                 /\ Step
                 /\ UNCHANGED << gameState, shopItems, storage, pveVars, pvpState,
                                 apiCooldowns, ai, pageVars >>
       ELSE IF tasks.aiWaiter # "none"
            THEN UNCHANGED vars
            ELSE /\ tasks' = [tasks EXCEPT !.aiWaiter = "arena"]
                 /\ Step
                 /\ UNCHANGED << gameState, shopItems, storage, pveVars, pvpState,
                                 apiCooldowns, elements, ai, pageVars >>

\* what the player may have typed as a question (trimmed)
Questions == { "", "question" }

\* const cost = CRYSTAL_BASE_COST + gameState.level * CRYSTAL_COST_PER_LEVEL
CrystalCost(gs) == CRYSTAL_BASE_COST + gs.level * CRYSTAL_COST_PER_LEVEL

\* handleCrystalQuery() from where it reads the question to the call of the
\* model, tk being the tasks left by what ran before it
crystalGate(tk) ==
    \E question \in Questions :
       IF question = "" \/ gameState.diamonds < CrystalCost(gameState)
       THEN /\ tasks' = tk
            /\ UNCHANGED << gameState, storage, apiCooldowns, elements >>
       ELSE /\ gameState' = [gameState EXCEPT !.diamonds = @ - CrystalCost(gameState)]
            /\ storage' = SaveOf(gameState', shopItems)
            /\ apiCooldowns' = [apiCooldowns EXCEPT !.crystal = now + API_COOLDOWN_MS]
            /\ elements' = [elements EXCEPT !.askCrystalBtn.disabled = TRUE,
                                            !.crystalResponseArea.shows = "loading"]
            /\ tasks' = [tk EXCEPT
                           !.crystalRequests = Append(@, CrystalCost(gameState)),
                           !.crystalCooldownIntervals = @ + 1]

\* initializeAi() settles: the import and the API key are there, or they are not
initializeAi ==
    /\ tasks.aiWaiter # "none"
    /\ \/ /\ ai' = TRUE
          /\ IF tasks.aiWaiter = "arena"
             THEN /\ openArenaGate([tasks EXCEPT !.aiWaiter = "none"])
                  /\ UNCHANGED << gameState, storage, apiCooldowns >>
             ELSE crystalGate([tasks EXCEPT !.aiWaiter = "none"])
       \/ /\ ai' = FALSE
          /\ tasks' = [tasks EXCEPT !.aiWaiter = "none"]
          /\ elements' = [elements EXCEPT !.arenaBtn.disabled = TRUE,
                                          !.crystalBtn.disabled = TRUE]
          /\ UNCHANGED << gameState, storage, apiCooldowns >>
    /\ Step
    /\ UNCHANGED << shopItems, pveVars, pvpState, pageVars >>

\* faulty variant of OpponentMaxHealth: the level term is left out
OpponentMaxHealthFlat(level) == OPPONENT_BASE_HEALTH

\* the opponent's max health at a level
OpponentMaxHealth(level) ==
    OPPONENT_BASE_HEALTH + (level - 1) * OPPONENT_HEALTH_PER_LEVEL

\* startPvpMatch() on the arena state ps, with the telegraphed first move
startPvpMatch(ps, gs, move) ==
    [ps EXCEPT !.playerMaxHealth = gs.playerMaxHealth,
               !.playerHealth = gs.playerHealth,
               !.opponentMaxHealth = OpponentMaxHealth(ps.opponentLevel),
               !.opponentHealth = OpponentMaxHealth(ps.opponentLevel),
               !.isGameOver = FALSE,
               !.isPlayerTurn = TRUE,
               !.opponentNextMove = move]

\* the opponent-generation call settles (try / catch / finally of openArenaModal)
opponentGenerated ==
    /\ tasks.arenaRequests > 0
    /\ tasks' = [tasks EXCEPT !.arenaRequests = @ - 1]
    /\ \E move \in OpponentMoves :
         \/ \E lvl \in GeneratedLevels :
              pvpState' = startPvpMatch(
                            [pvpState EXCEPT !.opponentName = "generated",
                                             !.opponentLevel = Max(1, lvl)],
                            gameState, move)
         \/ pvpState' = startPvpMatch(
                          [pvpState EXCEPT !.opponentName = "Training Golem",
                                           !.opponentLevel = gameState.level],
                          gameState, move)
    /\ elements' = [elements EXCEPT !.pvpActions.shown = TRUE,
                                    !.pvpHealBtn.disabled = FALSE]
    /\ Step
    /\ UNCHANGED << gameState, shopItems, storage, pveVars, apiCooldowns, ai,
                    pageVars >>

\* faulty variant of Healed: the permanent heal bonus is left out
HealedWithoutBonus(ps, gs) ==
    Min(ps.playerMaxHealth, ps.playerHealth + (ps.playerMaxHealth * 4) \div 10)

\* the arena health after a Heal, in half points:
\* Math.min(playerMaxHealth, playerHealth + playerMaxHealth * (0.4 + arenaHealBonus))
Healed(ps, gs) ==
    Min(ps.playerMaxHealth,
        ps.playerHealth + (ps.playerMaxHealth * (4 + gs.arenaHealBonus)) \div 10)

handlePvpAction ==
    /\ screen = "game"
    /\ ~elements.pvpModal.hidden
    /\ elements.pvpActions.shown
    /\ \E action \in PlayerActions :
         /\ action = "Heal" => ~elements.pvpHealBtn.disabled
         /\ IF ~pvpState.isPlayerTurn \/ pvpState.isGameOver
            THEN UNCHANGED vars
            ELSE /\ IF action = "Heal" /\ gameState.diamonds < PVP_HEAL_COST
                    THEN /\ pvpState' = [pvpState EXCEPT !.isPlayerTurn = TRUE,
                                                         !.playerAction = action]
                         /\ UNCHANGED << gameState, elements, tasks >>
                    ELSE /\ IF action = "Heal"
                            THEN /\ gameState' = [gameState EXCEPT
                                                    !.diamonds = @ - PVP_HEAL_COST]
                                 /\ pvpState' = [pvpState EXCEPT
                                                   !.isPlayerTurn = FALSE,
                                                   !.playerAction = action,
                                                   !.playerHealth = Healed(pvpState, gameState)]
                                 /\ elements' = [elements EXCEPT
                                                   !.pvpHealBtn.disabled = TRUE]
                            ELSE /\ pvpState' = [pvpState EXCEPT
                                                   !.isPlayerTurn = FALSE,
                                                   !.playerAction = action]
                                 /\ UNCHANGED << gameState, elements >>
                         /\ tasks' = [tasks EXCEPT !.resolveTimers = @ + 1]
                 /\ Step
                 /\ UNCHANGED << shopItems, storage, pveVars, apiCooldowns, ai,
                                 pageVars >>

\* faulty variant of PlayerDamage: a block takes half of the damage
PlayerDamageHalvedByBlock(ps, gs, roll) ==
    IF ps.playerAction = "Attack"
    THEN LET raw == PLAYER_ARENA_ATTACK_BASE + gs.level * PLAYER_ARENA_ATTACK_MULTIPLIER + roll
         IN IF ps.opponentNextMove = "Block" THEN raw \div 2 ELSE raw
    ELSE 0

\* the damage the player deals in an exchange: 0 unless the action is Attack,
\* a quarter when the opponent blocks, floored
PlayerDamage(ps, gs, roll) ==
    IF ps.playerAction = "Attack"
    THEN LET raw == PLAYER_ARENA_ATTACK_BASE + gs.level * PLAYER_ARENA_ATTACK_MULTIPLIER + roll
         IN IF ps.opponentNextMove = "Block" THEN raw \div 4 ELSE raw
    ELSE 0

\* the number of outcomes of
\* Math.floor(Math.random() * (opponentLevel * OPPONENT_ATTACK_BASE_MULTIPLIER)),
\* OPPONENT_ATTACK_BASE_MULTIPLIER = 1.5
OpponentBonusRolls(ps) == (3 * ps.opponentLevel + 1) \div 2

\* the damage the opponent deals in an exchange, in health points: 0 unless its
\* move is Attack or Power Attack (times 1.5), a quarter when the player blocks,
\* floored
OpponentDamage(ps, roll) ==
    IF ps.opponentNextMove \in { "Attack", "Power Attack" }
    THEN LET halves == ps.opponentLevel * OPPONENT_ATTACK_MULTIPLIER
                       * (IF ps.opponentNextMove = "Power Attack" THEN 3 ELSE 2)
                       + 2 * roll
         IN IF ps.playerAction = "Block" THEN halves \div 8 ELSE halves \div 2
    ELSE 0

\* the arena state after resolvePvpTurn() has applied and clamped the damage
Exchanged(ps, gs, playerRoll, opponentRoll) ==
    [ps EXCEPT !.playerHealth = Max(0, @ - HP(OpponentDamage(ps, opponentRoll))),
               !.opponentHealth = Max(0, @ - PlayerDamage(ps, gs, playerRoll))]

\* faulty variant of MatchOutcome: a defeat leaves the player's health as it was
MatchOutcomeUnclamped(gs, ps, playerWon) ==
    IF playerWon
    THEN [gainXP(gs, ps.opponentLevel * ARENA_XP_REWARD_MULTIPLIER)
            EXCEPT !.diamonds = @ + ps.opponentLevel * ARENA_DIAMOND_REWARD_MULTIPLIER]
    ELSE gs

\* gameState after endPvpMatch(playerWon)
MatchOutcome(gs, ps, playerWon) ==
    IF playerWon
    THEN [gainXP(gs, ps.opponentLevel * ARENA_XP_REWARD_MULTIPLIER)
            EXCEPT !.diamonds = @ + ps.opponentLevel * ARENA_DIAMOND_REWARD_MULTIPLIER]
    ELSE [gs EXCEPT !.playerHealth = HP(1)]

\* endPvpMatch(playerWon) on the arena state ps, tk being the tasks left by what
\* ran before it; setApiCooldown('arena', elements.arenaBtn) stamps the cooldown,
\* disables the arena button and starts its once-a-second interval
endPvpMatch(ps, playerWon, tk) ==
    /\ pvpState' = [ps EXCEPT !.isGameOver = TRUE]
    /\ gameState' = MatchOutcome(gameState, ps, playerWon)
    /\ apiCooldowns' = [apiCooldowns EXCEPT !.arena = now + API_COOLDOWN_MS]
    /\ elements' = [elements EXCEPT !.pvpActions.shown = FALSE,
                                    !.arenaBtn.disabled = TRUE]
    /\ tasks' = [tk EXCEPT !.arenaCooldownIntervals = @ + 1]
    /\ storage' = SaveOf(gameState', shopItems)

\* whether checkPvpEnd() ends the match on the arena state ps, and how
PlayerWon(ps) == ps.opponentHealth <= 0

PlayerLost(ps) == ~PlayerWon(ps) /\ ps.playerHealth <= 0

\* checkPvpEnd() on the arena state ps left by the exchange
checkPvpEnd(ps, tk) ==
    IF PlayerWon(ps)
    THEN endPvpMatch(ps, TRUE, tk)
    ELSE IF PlayerLost(ps)
    THEN endPvpMatch(ps, FALSE, tk)
    ELSE /\ \E move \in OpponentMoves :
              pvpState' = [ps EXCEPT !.isPlayerTurn = TRUE,
                                     !.playerAction = "null",
                                     !.opponentNextMove = move]
         /\ tasks' = tk
         /\ UNCHANGED << gameState, apiCooldowns, elements, storage >>

\* the timeout set by handlePvpAction fires
resolvePvpTurn ==
    /\ tasks.resolveTimers > 0
    /\ Step
    /\ \E playerRoll \in RandomBelow(5),
          opponentRoll \in RandomBelow(OpponentBonusRolls(pvpState)) :
         checkPvpEnd(Exchanged(pvpState, gameState, playerRoll, opponentRoll),
                     [tasks EXCEPT !.resolveTimers = @ - 1])
    /\ UNCHANGED << shopItems, pveVars, ai, pageVars >>

\* the arena health as the close handler writes it back
FinalArenaHealth(ps) == IF ps.playerHealth > 0 THEN ps.playerHealth ELSE HP(1)

\* the click handler of closePvpBtn
closePvpBtn ==
    /\ screen = "game"
    /\ ~elements.pvpModal.hidden
    /\ gameState' = IF pvpState.isGameOver
                    THEN [gameState EXCEPT !.playerHealth = FinalArenaHealth(pvpState)]
                    ELSE gameState
    /\ elements' = [elements EXCEPT !.pvpModal.hidden = TRUE]
    /\ Step
    /\ UNCHANGED << shopItems, storage, pveVars, pvpState, apiCooldowns, ai, tasks,
                    pageVars >>

\* the callback of the interval setApiCooldown('arena') starts: it runs once a
\* second, so time has passed when it runs; the model lets a second or a whole
\* cooldown pass
arenaCooldownInterval ==
    /\ tasks.arenaCooldownIntervals > 0
    /\ Step
    /\ \E elapsed \in { 1000, API_COOLDOWN_MS } : now' = now + elapsed
    /\ IF apiCooldowns.arena > now'
       THEN UNCHANGED << elements, tasks >>
       ELSE /\ elements' = [elements EXCEPT !.arenaBtn.disabled = FALSE]
            /\ tasks' = [tasks EXCEPT !.arenaCooldownIntervals = @ - 1]
    /\ UNCHANGED << gameState, shopItems, storage, pveVars, pvpState,
                    apiCooldowns, ai, screen, stamped >>

\* ------------------------------------------------------------------------
\* Session: login and page loads
\* ------------------------------------------------------------------------
\* what the player may type as a name (trimmed)
Names == { "", "Player" }

\* the submit handler of loginForm
loginForm ==
    /\ screen = "login"
    /\ \E name \in Names :
         IF name # ""
         THEN /\ gameState' = [gameState EXCEPT !.name = name,
                                                !.lastLoginDate = << Today(now) >>]
              /\ storage' = SaveOf(gameState', shopItems)
              /\ screen' = "game"
              /\ stamped' = [at |-> now, streak |-> gameState.streak]
         ELSE /\ gameState' = [gameState EXCEPT !.name = name]
              /\ UNCHANGED << storage, screen, stamped >>
    /\ Step
    /\ UNCHANGED << shopItems, pveVars, arenaVars, now >>

\* no save, so no stamp of lastLoginDate to remember
NoStamp == [at |-> 0, streak |-> 0]

\* the document is loaded again on the stored blob store: every variable of the
\* script starts over, every timer and awaited call of the old page is gone
LoadPage(store) ==
    /\ gameState' = LoadedPage(store, now).gameState
    /\ shopItems' = LoadedPage(store, now).shopItems
    /\ storage' = LoadedPage(store, now).storage
    /\ screen' = LoadedPage(store, now).screen
    /\ enemy' = InitialEnemy
    /\ pvpState' = InitialPvpState
    /\ apiCooldowns' = [crystal |-> 0, arena |-> 0]
    /\ intervals' = {}
    /\ elements' = LoadedPage(store, now).elements
    /\ ai' = FALSE
    /\ tasks' = NoTasks
    /\ stamped' = IF HasSave(store, now) THEN stamped ELSE NoStamp

\* the player reloads the page
reloadPage ==
    /\ Step
    /\ LoadPage(storage)
    /\ UNCHANGED now

\* resetGame(), confirmed: the save is removed and the page reloaded
resetGame ==
    /\ screen = "game"
    /\ Step
    /\ LoadPage(<< >>)
    /\ UNCHANGED now

\* ------------------------------------------------------------------------
\* The saves a run may start from
\* ------------------------------------------------------------------------
\* the clock at the first page load: noon of day 10
StartTime == 10 * DAY_MS + 12 * 60 * 60 * 1000

\* xpToNextLevel at a level: XP_TO_LEVEL_1 grown level - 1 times
RECURSIVE ThresholdAt(_)
ThresholdAt(level) ==
    IF level <= 1 THEN XP_TO_LEVEL_1 ELSE NextThreshold(ThresholdAt(level - 1))

\* a save as the program writes it for a player of that level, experience,
\* currency and health (in points) who owns the items in bought
SaveWith(level, xp, diamonds, health, bought, day, streak) ==
    SaveOf(
      applyAllPurchasedItemEffects(
        [getInitialGameState EXCEPT
           !.name = "Player",
           !.level = level,
           !.xp = xp,
           !.xpToNextLevel = ThresholdAt(level),
           !.diamonds = diamonds,
           !.playerHealth = HP(health),
           !.playerMaxHealth = HP(PLAYER_BASE_HEALTH + (level - 1) * HEALTH_PER_LEVEL),
           !.lastLoginDate = << day >>,
           !.streak = streak],
        [id \in ItemIds |-> id \in bought]),
      [id \in ItemIds |-> id \in bought])

\* what localStorage holds when the page is first loaded: nothing (a first
\* visit), or a save left by earlier play
InitialStores ==
    { << >>,
      \* a novice one portal short of level 2, badly hurt, with the price of the
      \* cheapest upgrade
      SaveWith(1, 90, 50, 4, {}, Today(StartTime), 1),
      \* a veteran one arena win short of level 21, badly hurt, with the price
      \* of one arena heal
      SaveWith(20, ThresholdAt(20) - 15, 30, 2,
               { "golem_heart", "aegis_of_valor", "ring_of_regeneration" },
               Today(StartTime), 3) }

Init ==
    /\ now = StartTime
    /\ \E store \in InitialStores :
         /\ gameState = LoadedPage(store, now).gameState
         /\ shopItems = LoadedPage(store, now).shopItems
         /\ storage = LoadedPage(store, now).storage
         /\ screen = LoadedPage(store, now).screen
         /\ elements = LoadedPage(store, now).elements
         /\ stamped = IF store = << >> THEN NoStamp
                       ELSE [at |-> now, streak |-> store[1].gameState.streak]
    /\ enemy = InitialEnemy
    /\ pvpState = InitialPvpState
    /\ apiCooldowns = [crystal |-> 0, arena |-> 0]
    /\ intervals = {}
    /\ ai = FALSE
    /\ tasks = NoTasks
    /\ steps = 0

Next ==
    \/ loginForm
    \/ enterPortal
    \/ attackEnemy
    \/ enemyAttack
    \/ buyItem
    \/ openArenaModal
    \/ initializeAi
    \/ opponentGenerated
    \/ handlePvpAction
    \/ resolvePvpTurn
    \/ closePvpBtn
    \/ arenaCooldownInterval
    \/ reloadPage
    \/ resetGame

Spec == Init /\ [][Next]_vars


\* ------------------------------------------------------------------------
\* The catalog baseline on its own: loadGameState() at the point where it calls
\* applyAllPurchasedItemEffects(), for every set of purchased flags
\* ------------------------------------------------------------------------
\* gameState after loadGameState()'s merge, before the replay: the derived
\* bonuses are those of the save, which are the ones the flags give, or the
\* defaults when the save holds none (the merge on getInitialGameState())
Merged(items, withoutBonuses, buffed) ==
    LET gs == [getInitialGameState EXCEPT
                 !.name = "Player",
                 !.level = 2,
                 !.xpToNextLevel = ThresholdAt(2),
                 !.diamonds = 30,
                 !.playerHealth = HP(60),
                 !.playerMaxHealth = HP(PLAYER_BASE_HEALTH + HEALTH_PER_LEVEL),
                 !.lastLoginDate = << Today(StartTime) >>,
                 !.streak = 1,
                 !.activeBuffs = IF buffed THEN SetBuff(NoBuffs, "xp_boost", 3)
                                 ELSE NoBuffs]
    IN IF withoutBonuses THEN gs ELSE ApplyFrom(1, gs, items)

InitBaseline ==
    /\ now = StartTime
    /\ shopItems \in [ItemIds -> BOOLEAN]
    /\ \E withoutBonuses \in BOOLEAN, buffed \in BOOLEAN :
         gameState = Merged(shopItems, withoutBonuses, buffed)
    /\ storage = SaveOf(gameState, shopItems)
    /\ screen = "login"
    /\ enemy = InitialEnemy
    /\ pvpState = InitialPvpState
    /\ apiCooldowns = [crystal |-> 0, arena |-> 0]
    /\ intervals = {}
    /\ elements = InitialElements
    /\ ai = FALSE
    /\ tasks = NoTasks
    /\ stamped = [at |-> now, streak |-> gameState.streak]
    /\ steps = 0

\* the call of applyAllPurchasedItemEffects()
replayPurchases ==
    /\ Step
    /\ gameState' = applyAllPurchasedItemEffects(gameState, shopItems)
    /\ UNCHANGED << shopItems, storage, pveVars, arenaVars, pageVars >>

NextBaseline == replayPurchases

SpecBaseline == InitBaseline /\ [][NextBaseline]_vars

\* ------------------------------------------------------------------------
\* The experience gain on its own: gainXP(amount) for players of several
\* levels and amounts from a few points to several thresholds
\* ------------------------------------------------------------------------
\* the amounts handed to gainXP(): a portal's, an enemy's or an opponent's
\* reward, up to the reward for an opponent of level 20 and more
XpAmounts == { 5, 10, 100, 250, 400 }

\* a hurt player of that level and experience, with or without the Scroll of
\* Wisdom and the xp boost
Gainer(level, xp, scroll, buffed) ==
    LET items == [id \in ItemIds |-> scroll /\ id = "scroll_of_wisdom"]
        gs == [getInitialGameState EXCEPT
                 !.name = "Player",
                 !.level = level,
                 !.xp = xp,
                 !.xpToNextLevel = ThresholdAt(level),
                 !.playerHealth = HP(7),
                 !.playerMaxHealth = HP(PLAYER_BASE_HEALTH + (level - 1) * HEALTH_PER_LEVEL),
                 !.lastLoginDate = << Today(StartTime) >>,
                 !.streak = 1,
                 !.activeBuffs = IF buffed THEN SetBuff(NoBuffs, "xp_boost", 3)
                                 ELSE NoBuffs]
    IN applyAllPurchasedItemEffects(gs, items)

InitLevelUp ==
    /\ now = StartTime
    /\ \E level \in 1 .. MaxStartLevel, scroll \in BOOLEAN, buffed \in BOOLEAN :
         \E xp \in { 0, ThresholdAt(level) - 10 } :
            /\ gameState = Gainer(level, xp, scroll, buffed)
            /\ shopItems = [id \in ItemIds |-> scroll /\ id = "scroll_of_wisdom"]
    /\ storage = SaveOf(gameState, shopItems)
    /\ screen = "game"
    /\ enemy = InitialEnemy
    /\ pvpState = InitialPvpState
    /\ apiCooldowns = [crystal |-> 0, arena |-> 0]
    /\ intervals = {}
    /\ elements = InitialElements
    /\ ai = FALSE
    /\ tasks = NoTasks
    /\ stamped = [at |-> now, streak |-> gameState.streak]
    /\ steps = 0

\* a call of gainXP(amount)
gainExperience ==
    /\ Step
    /\ \E amount \in XpAmounts : gameState' = gainXP(gameState, amount)
    /\ UNCHANGED << shopItems, storage, pveVars, arenaVars, pageVars >>

NextLevelUp == gainExperience

SpecLevelUp == InitLevelUp /\ [][NextLevelUp]_vars

\* ------------------------------------------------------------------------
\* The daily reward: days pass, the page is loaded again, the reward is
\* claimed or its modal closed
\* ------------------------------------------------------------------------
\* const dailyRewards: the currency of each tier and whether it has a bonus
\* (the one bonus of the table includes 'XP')
dailyRewards ==
    << [diamonds |-> 25, bonus |-> FALSE],
       [diamonds |-> 40, bonus |-> FALSE],
       [diamonds |-> 60, bonus |-> FALSE],
       [diamonds |-> 80, bonus |-> FALSE],
       [diamonds |-> 100, bonus |-> FALSE],
       [diamonds |-> 150, bonus |-> FALSE],
       [diamonds |-> 200, bonus |-> TRUE] >>

\* const dayIndex = Math.min(gameState.streak - 1, dailyRewards.length - 1)
DayIndex(streak) == Min(streak - 1, Len(dailyRewards) - 1)

\* faulty variant of Claimed: lastLoginDate is not stamped
ClaimedUnstamped(gs, t) ==
    LET reward == dailyRewards[DayIndex(gs.streak) + 1]
    IN [gs EXCEPT !.diamonds = @ + reward.diamonds,
                  !.activeBuffs = IF reward.bonus THEN SetBuff(@, "xp_boost", 10) ELSE @]

\* gameState after claimDailyReward() at time t
Claimed(gs, t) ==
    LET reward == dailyRewards[DayIndex(gs.streak) + 1]
    IN [gs EXCEPT !.diamonds = @ + reward.diamonds,
                  !.activeBuffs = IF reward.bonus THEN SetBuff(@, "xp_boost", 10) ELSE @,
                  !.lastLoginDate = << Today(t) >>]

\* a click on claimRewardBtn, which the open modal shows
claimDailyReward ==
    /\ screen = "game"
    /\ ~elements.dailyRewardModal.hidden
    /\ ~elements.claimRewardBtn.disabled
    /\ gameState' = Claimed(gameState, now)
    /\ elements' = [elements EXCEPT !.claimRewardBtn.disabled = TRUE,
                                    !.dailyRewardModal.hidden = TRUE]
    /\ storage' = SaveOf(gameState', shopItems)
    /\ stamped' = [at |-> now, streak |-> gameState.streak]
    /\ Step
    /\ UNCHANGED << shopItems, pveVars, pvpState, apiCooldowns, ai, tasks, now, screen >>

\* a click on closeDailyRewardBtn: the modal is closed, nothing is claimed
closeDailyRewardBtn ==
    /\ screen = "game"
    /\ ~elements.dailyRewardModal.hidden
    /\ elements' = [elements EXCEPT !.dailyRewardModal.hidden = TRUE]
    /\ Step
    /\ UNCHANGED << gameState, shopItems, storage, pveVars, pvpState, apiCooldowns,
                    ai, tasks, pageVars >>

\* a click on the portal once the daily reward modal is out of the way
portalAfterModal == elements.dailyRewardModal.hidden /\ enterPortal

\* how long the player stays away: half a day or a day
Absences == { DAY_MS \div 2, DAY_MS }

\* time passes with nothing run
timePasses ==
    /\ Step
    /\ \E absence \in Absences : now' = now + absence
    /\ UNCHANGED << gameState, shopItems, storage, pveVars, arenaVars, screen, stamped >>

\* the streaks of the stored saves: the first tier, one short of the last tier
\* and past the end of the table
StoredStreaks == { 1, 6, 9 }

\* a save stamped at time at, by a claim at that streak
DailySave(at, streak) == SaveWith(3, 0, 0, 50, {}, Today(at), streak)

\* when the stored saves were stamped: at noon today, or yesterday an hour
\* before midnight
StampTimes == { StartTime, StartTime - 13 * 60 * 60 * 1000 }

InitDaily ==
    /\ now = StartTime
    /\ \/ \E at \in StampTimes, streak \in StoredStreaks :
            /\ gameState = LoadedPage(DailySave(at, streak), now).gameState
            /\ shopItems = LoadedPage(DailySave(at, streak), now).shopItems
            /\ storage = LoadedPage(DailySave(at, streak), now).storage
            /\ screen = LoadedPage(DailySave(at, streak), now).screen
            /\ elements = LoadedPage(DailySave(at, streak), now).elements
            /\ stamped = [at |-> at, streak |-> streak]
       \/ /\ gameState = LoadedPage(<< >>, now).gameState
          /\ shopItems = LoadedPage(<< >>, now).shopItems
          /\ storage = LoadedPage(<< >>, now).storage
          /\ screen = LoadedPage(<< >>, now).screen
          /\ elements = LoadedPage(<< >>, now).elements
          /\ stamped = NoStamp
    /\ enemy = InitialEnemy
    /\ pvpState = InitialPvpState
    /\ apiCooldowns = [crystal |-> 0, arena |-> 0]
    /\ intervals = {}
    /\ ai = FALSE
    /\ tasks = NoTasks
    /\ steps = 0

NextDaily ==
    \/ loginForm
    \/ timePasses
    \/ reloadPage
    \/ claimDailyReward
    \/ closeDailyRewardBtn
    \/ portalAfterModal

SpecDaily == InitDaily /\ [][NextDaily]_vars

\* ------------------------------------------------------------------------
\* The Wise Crystal and the arena: the features behind initializeAi()
\* ------------------------------------------------------------------------
\* a click on crystalBtn: the crystal modal opens
crystalBtn ==
    /\ screen = "game"
    /\ ~elements.crystalBtn.disabled
    /\ IF ~elements.crystalModal.hidden
       THEN UNCHANGED vars
       ELSE /\ elements' = [elements EXCEPT !.crystalModal.hidden = FALSE]
            /\ Step
            /\ UNCHANGED << gameState, shopItems, storage, pveVars, pvpState,
                            apiCooldowns, ai, tasks, pageVars >>

\* a click on closeCrystalBtn
closeCrystalBtn ==
    /\ screen = "game"
    /\ ~elements.crystalModal.hidden
    /\ elements' = [elements EXCEPT !.crystalModal.hidden = TRUE]
    /\ Step
    /\ UNCHANGED << gameState, shopItems, storage, pveVars, pvpState,
                    apiCooldowns, ai, tasks, pageVars >>

\* the crystal form is submitted: handleCrystalQuery() up to where it first
\* waits
handleCrystalQuery ==
    /\ screen = "game"
    /\ ~elements.crystalModal.hidden
    /\ ~elements.askCrystalBtn.disabled
    /\ IF ai
       THEN \/ \* the question is paid for and asked
               /\ crystalGate(tasks)
               /\ tasks' # tasks
               /\ Step
               /\ UNCHANGED << shopItems, pveVars, pvpState, ai, pageVars >>
            \/ \* no question, or not enough diamonds: a notification at most
               UNCHANGED vars
       ELSE IF tasks.aiWaiter # "none"
            THEN UNCHANGED vars
            ELSE /\ tasks' = [tasks EXCEPT !.aiWaiter = "crystal"]
                 /\ Step
                 /\ UNCHANGED << gameState, shopItems, storage, pveVars, pvpState,
                                 apiCooldowns, elements, ai, pageVars >>

\* a sequence without its i-th element
Without(seq, i) == SubSeq(seq, 1, i - 1) \o SubSeq(seq, i + 1, Len(seq))

\* faulty variant of crystalAnswered: the catch block shows the error and
\* refunds nothing
crystalAnsweredWithoutRefund ==
    /\ \E i \in DOMAIN tasks.crystalRequests :
         /\ tasks' = [tasks EXCEPT !.crystalRequests = Without(@, i)]
         /\ \E shown \in { "answer", "error" } :
              elements' = [elements EXCEPT !.crystalResponseArea.shows = shown]
    /\ Step
    /\ UNCHANGED << gameState, shopItems, storage, pveVars, pvpState, apiCooldowns,
                    ai, pageVars >>

\* the call of the model settles: the answer is shown, or the call throws and
\* the cost is refunded
crystalAnswered ==
    /\ \E i \in DOMAIN tasks.crystalRequests :
         /\ tasks' = [tasks EXCEPT !.crystalRequests = Without(@, i)]
         /\ \/ /\ elements' = [elements EXCEPT !.crystalResponseArea.shows = "answer"]
               /\ UNCHANGED gameState
            \/ /\ elements' = [elements EXCEPT !.crystalResponseArea.shows = "error"]
               /\ gameState' = [gameState EXCEPT !.diamonds = @ + tasks.crystalRequests[i]]
    /\ Step
    /\ UNCHANGED << shopItems, storage, pveVars, pvpState, apiCooldowns, ai, pageVars >>

\* the callback of the interval setApiCooldown('crystal') starts; time has
\* passed when it runs
crystalCooldownInterval ==
    /\ tasks.crystalCooldownIntervals > 0
    /\ Step
    /\ \E elapsed \in { 1000, API_COOLDOWN_MS } : now' = now + elapsed
    /\ IF apiCooldowns.crystal > now'
       THEN UNCHANGED << elements, tasks >>
       ELSE /\ elements' = [elements EXCEPT !.askCrystalBtn.disabled = FALSE]
            /\ tasks' = [tasks EXCEPT !.crystalCooldownIntervals = @ - 1]
    /\ UNCHANGED << gameState, shopItems, storage, pveVars, pvpState,
                    apiCooldowns, ai, screen, stamped >>

\* the saves the runs of the AI features start from: the novice, the veteran,
\* and a player of level 2 with 10 diamonds, too few for a heal or a question
AiStores ==
    (InitialStores \ { << >> }) \cup { SaveWith(2, 0, 10, 60, {}, Today(StartTime), 1) }

InitAi ==
    /\ now = StartTime
    /\ \E store \in AiStores :
         /\ gameState = LoadedPage(store, now).gameState
         /\ shopItems = LoadedPage(store, now).shopItems
         /\ storage = LoadedPage(store, now).storage
         /\ screen = LoadedPage(store, now).screen
         /\ elements = LoadedPage(store, now).elements
         /\ stamped = [at |-> now, streak |-> store[1].gameState.streak]
    /\ enemy = InitialEnemy
    /\ pvpState = InitialPvpState
    /\ apiCooldowns = [crystal |-> 0, arena |-> 0]
    /\ intervals = {}
    /\ ai = FALSE
    /\ tasks = NoTasks
    /\ steps = 0

NextAi ==
    \/ crystalBtn
    \/ closeCrystalBtn
    \/ handleCrystalQuery
    \/ initializeAi
    \/ crystalAnswered
    \/ crystalCooldownInterval
    \/ openArenaModal
    \/ opponentGenerated
    \/ handlePvpAction
    \/ resolvePvpTurn
    \/ closePvpBtn
    \/ arenaCooldownInterval

SpecAi == InitAi /\ [][NextAi]_vars

\* ------------------------------------------------------------------------
\* The currency: every operation that debits or grants diamonds, side by side
\* (the clicks that only close a modal are left out)
\* ------------------------------------------------------------------------
\* a hurt player of level 2 with 60 diamonds (a question costs 30, a heal 25,
\* the cheapest upgrade 50), last stamped at that time at streak 1
FundsSave(at) == SaveWith(2, 0, 60, 3, {}, Today(at), 1)

\* the page has just been loaded on a save stamped yesterday (the daily reward
\* is offered), or a session on a save stamped today is under way in which the
\* AI client has been initialised by a crystal query without a question (the
\* crystal modal is open)
InitFunds ==
    /\ now = StartTime
    /\ \E at \in StampTimes :
         /\ gameState = LoadedPage(FundsSave(at), now).gameState
         /\ shopItems = LoadedPage(FundsSave(at), now).shopItems
         /\ storage = LoadedPage(FundsSave(at), now).storage
         /\ screen = LoadedPage(FundsSave(at), now).screen
         /\ ai = (Today(at) = Today(now))
         /\ elements = [LoadedPage(FundsSave(at), now).elements
                          EXCEPT !.crystalModal.hidden = ~ai]
         /\ stamped = [at |-> at, streak |-> 1]
    /\ enemy = InitialEnemy
    /\ pvpState = InitialPvpState
    /\ apiCooldowns = [crystal |-> 0, arena |-> 0]
    /\ intervals = {}
    /\ tasks = NoTasks
    /\ steps = 0

NextFunds ==
    \/ enterPortal
    \/ attackEnemy
    \/ enemyAttack
    \/ buyItem
    \/ claimDailyReward
    \/ handleCrystalQuery
    \/ initializeAi
    \/ crystalAnswered
    \/ crystalCooldownInterval
    \/ openArenaModal
    \/ opponentGenerated
    \/ handlePvpAction
    \/ resolvePvpTurn
    \/ arenaCooldownInterval

SpecFunds == InitFunds /\ [][NextFunds]_vars

\* ------------------------------------------------------------------------
\* Portals and PvE combat for players whose upgrades and buffs show in them
\* ------------------------------------------------------------------------
\* the save with an xp boost that has that many portals left
Boosted(store, left) ==
    << [store[1] EXCEPT !.gameState.activeBuffs = SetBuff(NoBuffs, "xp_boost", left)] >>

\* the saves the PvE runs start from
PveStores ==
    { \* a player of level 2 in good health with the price of a potion, owner of
      \* the Golem Heart, the Aegis of Valor and the Lucky Doubloon
      SaveWith(2, 0, 75, 50, { "golem_heart", "aegis_of_valor", "lucky_doubloon" },
               Today(StartTime), 1),
      \* a badly hurt novice with an odd number of diamonds and a boost that has
      \* 2 portals left
      Boosted(SaveWith(1, 0, 61, 3, {}, Today(StartTime), 1), 2) }

InitPve ==
    /\ now = StartTime
    /\ \E store \in PveStores :
         /\ gameState = LoadedPage(store, now).gameState
         /\ shopItems = LoadedPage(store, now).shopItems
         /\ storage = LoadedPage(store, now).storage
         /\ screen = LoadedPage(store, now).screen
         /\ elements = LoadedPage(store, now).elements
         /\ stamped = [at |-> now, streak |-> store[1].gameState.streak]
    /\ enemy = InitialEnemy
    /\ pvpState = InitialPvpState
    /\ apiCooldowns = [crystal |-> 0, arena |-> 0]
    /\ intervals = {}
    /\ ai = FALSE
    /\ tasks = NoTasks
    /\ steps = 0

NextPve ==
    \/ enterPortal
    \/ attackEnemy
    \/ enemyAttack
    \/ buyItem
    \/ reloadPage

SpecPve == InitPve /\ [][NextPve]_vars

\* ------------------------------------------------------------------------
\* PvE combat left to the enemy's timer
\* ------------------------------------------------------------------------
\* the callback of a scheduled interval when it has an effect; the interval
\* fires however many clicks the player has made, so it is not counted among
\* the steps of the run
enemyAttackTimer ==
    /\ intervals # {}
    /\ gameState.inCombat
    /\ enemy.health > 0
    /\ enemyHits
    /\ UNCHANGED steps

\* the saves the runs left to the timer start from: players a few hits away
\* from defeat, with the price of an item to buy in combat
TimerStores ==
    { SaveWith(2, 0, 75, 9, {}, Today(StartTime), 1),
      Boosted(SaveWith(1, 0, 61, 3, {}, Today(StartTime), 1), 2) }

InitTimer ==
    /\ now = StartTime
    /\ \E store \in TimerStores :
         /\ gameState = LoadedPage(store, now).gameState
         /\ shopItems = LoadedPage(store, now).shopItems
         /\ storage = LoadedPage(store, now).storage
         /\ screen = LoadedPage(store, now).screen
         /\ elements = LoadedPage(store, now).elements
         /\ stamped = [at |-> now, streak |-> store[1].gameState.streak]
    /\ enemy = InitialEnemy
    /\ pvpState = InitialPvpState
    /\ apiCooldowns = [crystal |-> 0, arena |-> 0]
    /\ intervals = {}
    /\ ai = FALSE
    /\ tasks = NoTasks
    /\ steps = 0

\* the clicks of the player before the run is left to the timer
TimerClicks == 4

\* the clicks of the player are free to come or not; the timer is the only
\* step that has to come: setInterval() keeps firing while it is scheduled
NextTimer ==
    \/ steps < TimerClicks /\ enterPortal
    \/ steps < TimerClicks /\ attackEnemy
    \/ steps < TimerClicks /\ buyItem
    \/ steps < TimerClicks /\ reloadPage
    \/ enemyAttackTimer

SpecTimer == InitTimer /\ [][NextTimer]_vars /\ WF_vars(enemyAttackTimer)

\* ------------------------------------------------------------------------
\* Properties
\* ------------------------------------------------------------------------
\* the operations that grant experience
GainStep == enterPortal \/ attackEnemy \/ resolvePvpTurn

XpInRange(gs) == 0 <= gs.xp /\ gs.xp < gs.xpToNextLevel

\* C1: over every experience gain (portal, enemy defeat, arena victory) the
\* level does not decrease, and once the gain has been evaluated
\* 0 <= xp < xpToNextLevel.
LevelNeverDecreasesXpInRange ==
    [][GainStep => (gameState'.level >= gameState.level /\ XpInRange(gameState'))]_vars

\* an arena victory over a level 1 opponent has taken the veteran, 15 points
\* short of it, to level 21
LevelGainedInArena ==
    /\ gameState.level = 21
    /\ gameState.xp = 0
    /\ pvpState.isGameOver
    /\ pvpState.opponentHealth = 0

\* C2: in every state, the one right after a load included, playerMaxHealth is
\* 100 + 15 * (level - 1).
MaxHealthIsFunctionOfLevel ==
    gameState.playerMaxHealth = HP(100 + 15 * (gameState.level - 1))

\* the veteran has levelled up in the arena (only an arena victory leaves xp at
\* 0) and the page has been loaded again since (the arena state is the initial
\* one)
LevelGainedThenLoaded ==
    /\ gameState.level = 21
    /\ gameState.xp = 0
    /\ pvpState = InitialPvpState
    /\ gameState.playerMaxHealth = HP(400)

\* C3: in every state, whatever the interleaving of portals, attacks, enemy
\* timer attacks, level-ups, arena matches and loads,
\* 0 <= playerHealth <= playerMaxHealth.
HealthWithinBounds ==
    /\ 0 <= gameState.playerHealth
    /\ gameState.playerHealth <= gameState.playerMaxHealth

\* an arena defeat has been written back by closing the arena modal
DefeatWrittenBack ==
    /\ pvpState.isGameOver
    /\ pvpState.playerHealth = 0
    /\ elements.pvpModal.hidden
    /\ gameState.playerHealth = HP(1)

InCombatHasLiveEncounter ==
    gameState.inCombat =>
        /\ enemy.health > 0
        /\ enemy.attackIntervalId \in intervals

\* what buyItem(id) must do to gameState and shopItems: nothing when the
\* currency is short or the upgrade is owned, else the exact debit, the flag
\* (upgrades only) and the effect applied once
BuyContract(id) ==
    IF gameState.diamonds < cost(id) \/ (~isConsumable(id) /\ shopItems[id])
    THEN UNCHANGED << gameState, shopItems >>
    ELSE /\ gameState'.diamonds = gameState.diamonds - cost(id)
         /\ shopItems' = [i \in ItemIds |->
                            IF i = id /\ ~isConsumable(id) THEN TRUE ELSE shopItems[i]]
         /\ [gameState' EXCEPT !.diamonds = 0]
              = [applyEffect(id, gameState) EXCEPT !.diamonds = 0]

\* C6: buy-item changes nothing (currency, flags, bonuses, buffs) when the
\* currency is below the cost or the item is an owned non-consumable; else it
\* debits exactly the cost, sets the flag of a non-consumable and applies the
\* effect once.  A player with exactly the cost ends with 0, and the same
\* upgrade cannot be bought a second time.
BuyItemContract ==
    [][buyItem => \E id \in ItemIds : BuyContract(id)]_vars

\* the novice has spent exactly their 50 diamonds on the Crystal Magnet
BoughtWithExactCost ==
    /\ steps = 1
    /\ gameState.diamonds = 0
    /\ shopItems["crystal_magnet"]
    /\ gameState.portalMinBonus = 2

\* the seven derived bonuses of a gameState
DerivedBonuses(gs) ==
    [ portalMinBonus |-> gs.portalMinBonus,
      portalMaxBonus |-> gs.portalMaxBonus,
      golemAttackBonus |-> gs.golemAttackBonus,
      xpBonusMultiplier |-> gs.xpBonusMultiplier,
      damageReduction |-> gs.damageReduction,
      arenaHealBonus |-> gs.arenaHealBonus,
      enemyDiamondDoubleChance |-> gs.enemyDiamondDoubleChance ]

\* the defaults plus the effect of each owned upgrade, counted once
ExpectedBonuses(items) ==
    [ portalMinBonus |-> IF items["crystal_magnet"] THEN 2 ELSE 0,
      portalMaxBonus |-> IF items["explorers_charm"] THEN 5 ELSE 0,
      golemAttackBonus |-> IF items["golem_heart"] THEN 3 ELSE 0,
      xpBonusMultiplier |-> IF items["scroll_of_wisdom"] THEN 11 ELSE 10,
      damageReduction |-> IF items["aegis_of_valor"] THEN 5 ELSE 0,
      arenaHealBonus |-> IF items["ring_of_regeneration"] THEN 1 ELSE 0,
      enemyDiamondDoubleChance |-> IF items["lucky_doubloon"] THEN 1 ELSE 0 ]

\* C7: after any purchases, saves and loads, every derived bonus is its default
\* plus the effect of each purchased non-consumable counted exactly once.
BonusesMatchPurchases ==
    DerivedBonuses(gameState) = ExpectedBonuses(shopItems)

\* an upgrade bought in combat and the page loaded again: the save written by the
\* purchase has been replayed (only a load leaves inCombat without an interval)
PurchaseSavedAndLoaded ==
    /\ shopItems["crystal_magnet"]
    /\ gameState.portalMinBonus = 2
    /\ gameState.inCombat
    /\ intervals = {}

\* a gameState without its derived bonuses
BesidesBonuses(gs) ==
    [f \in DOMAIN gs \ DOMAIN DerivedBonuses(gs) |-> gs[f]]

\* C8: applying applyAllPurchasedItemEffects twice in a row gives the derived
\* bonuses that applying it once gives, for every set of purchased flags, and
\* it leaves everything but the derived bonuses (buffs, currency, level, health)
\* as it was.
BaselineIdempotent ==
    LET once == applyAllPurchasedItemEffects(gameState, shopItems)
        twice == applyAllPurchasedItemEffects(once, shopItems)
    IN /\ DerivedBonuses(twice) = DerivedBonuses(once)
       /\ BesidesBonuses(once) = BesidesBonuses(gameState)
       /\ BesidesBonuses(twice) = BesidesBonuses(gameState)

\* the baseline has been applied to a buffed player whose flags for the first
\* upgrade, the last upgrade and the consumable of the catalog are set
BaselineApplied ==
    /\ steps >= 1
    /\ shopItems["crystal_magnet"]
    /\ shopItems["lucky_doubloon"]
    /\ shopItems["potion_xp_boost"]
    /\ gameState.portalMinBonus = 2
    /\ gameState.enemyDiamondDoubleChance = 1
    /\ HasBuff(gameState, "xp_boost")

\* an exchange that brings the player's arena health to 0
PlayerFalls == resolvePvpTurn /\ pvpState.playerHealth > 0 /\ pvpState'.playerHealth = 0

\* the match is over in defeat: health forced to 1, nothing granted
EndsInDefeat ==
    /\ pvpState'.isGameOver
    /\ gameState'.playerHealth = HP(1)
    /\ gameState'.xp = gameState.xp
    /\ gameState'.level = gameState.level
    /\ gameState'.diamonds = gameState.diamonds

\* C9 (as stated): whenever the player's arena health reaches 0 in an exchange,
\* the match ends in defeat, PlayerState health is forced to 1 and no experience
\* or currency is granted, also when the opponent's health reaches 0 in the same
\* exchange.
FallIsAlwaysDefeat ==
    [][PlayerFalls => EndsInDefeat]_vars

\* C9 (amended): whenever the player's arena health reaches 0 in an exchange
\* that leaves the opponent's health positive, the match ends in defeat,
\* PlayerState health is forced to 1 and no experience or currency is granted.
FallWithOpponentStandingIsDefeat ==
    [][(PlayerFalls /\ pvpState'.opponentHealth > 0) => EndsInDefeat]_vars

\* a match lost to an opponent still standing
MatchLost ==
    /\ pvpState.isGameOver
    /\ pvpState.playerHealth = 0
    /\ pvpState.opponentHealth > 0
    /\ gameState.playerHealth = HP(1)

\* C10: once a match is over, by victory or by defeat, PlayerState health is
\* the player's final arena health, 1 standing in for 0.
HealthWrittenBackAtMatchEnd ==
    [][(~pvpState.isGameOver /\ pvpState'.isGameOver)
         => gameState'.playerHealth = FinalArenaHealth(pvpState')]_vars

\* a Heal that takes effect: the action is recorded and the turn passes
HealStep ==
    handlePvpAction /\ pvpState'.playerAction = "Heal" /\ ~pvpState'.isPlayerTurn

\* the arena health a Heal must leave, without rounding: ten times the health
\* is ten times the old health plus maxHealth * (4 + bonus in tenths), unless
\* that passes maxHealth
HealedAsStated ==
    LET gain == pvpState.playerMaxHealth * (4 + gameState.arenaHealBonus)
    IN IF 10 * pvpState.playerHealth + gain >= 10 * pvpState.playerMaxHealth
       THEN pvpState'.playerHealth = pvpState.playerMaxHealth
       ELSE 10 * pvpState'.playerHealth = 10 * pvpState.playerHealth + gain

\* C11: within one arena match (from one startPvpMatch to the next) a Heal
\* takes effect at most once: it takes effect only while the heal button is
\* not yet used up, uses it up, and nothing but the start of a match or a page
\* load offers it again; no other player action debits currency or restores
\* health.  When it takes effect it debits 25 and the arena health becomes
\* min(maxHealth, health + maxHealth * (0.4 + arenaHealBonus)).
HealAtMostOncePerMatch ==
    /\ [][HealStep =>
            /\ ~elements.pvpHealBtn.disabled
            /\ elements'.pvpHealBtn.disabled
            /\ gameState'.diamonds = gameState.diamonds - 25
            /\ HealedAsStated]_vars
    /\ [][(handlePvpAction /\ ~HealStep) =>
            /\ gameState'.diamonds = gameState.diamonds
            /\ pvpState'.playerHealth = pvpState.playerHealth]_vars
    /\ [][(elements.pvpHealBtn.disabled /\ ~elements'.pvpHealBtn.disabled) =>
            (opponentGenerated \/ pvpState' = InitialPvpState)]_vars

\* the veteran, owner of the Ring of Regeneration, has healed half of their
\* 385 maximum from 2 health and paid 25 of their 30 diamonds
HealedOnce ==
    /\ elements.pvpHealBtn.disabled
    /\ pvpState.playerAction = "Heal"
    /\ ~pvpState.isPlayerTurn
    /\ gameState.diamonds = 5
    /\ pvpState.playerHealth = HP(2) + 385

\* the player's unblocked Attack damage for a bonus roll
UnblockedPlayerDamage(roll) == 2 + 4 * gameState.level + roll

\* twice the opponent's unblocked damage (it may end in .5) for a bonus roll
TwiceUnblockedOpponentDamage(roll) ==
    (IF pvpState.opponentNextMove = "Power Attack" THEN 9 ELSE 6) * pvpState.opponentLevel
    + 2 * roll

\* the largest value of Math.floor(Math.random() * (opponentLevel * 1.5))
MaxOpponentRoll == ((3 * pvpState.opponentLevel + 1) \div 2) - 1

\* the exchange took damage points from the opponent
OpponentTook(damage) ==
    pvpState'.opponentHealth = Max(0, pvpState.opponentHealth - damage)

\* the exchange took damage points from the player
PlayerTook(damage) ==
    pvpState'.playerHealth = Max(0, pvpState.playerHealth - HP(damage))

\* C12: in an arena exchange in which the player attacks and the opponent
\* attacks or power-attacks, each side loses a strictly positive amount; when
\* the defender chose Block, the damage applied is the unblocked damage times
\* (1 - 0.75), floored.
ExchangeDamage ==
    /\ [][(/\ resolvePvpTurn
           /\ pvpState.playerAction = "Attack"
           /\ pvpState.opponentNextMove \in { "Attack", "Power Attack" }) =>
            /\ pvpState'.opponentHealth < pvpState.opponentHealth
            /\ pvpState'.playerHealth < pvpState.playerHealth
            /\ \E roll \in 0 .. 4 : OpponentTook(UnblockedPlayerDamage(roll))
            /\ \E roll \in 0 .. MaxOpponentRoll :
                 PlayerTook(TwiceUnblockedOpponentDamage(roll) \div 2)]_vars
    /\ [][(/\ resolvePvpTurn
           /\ pvpState.playerAction = "Attack"
           /\ pvpState.opponentNextMove = "Block") =>
            \E roll \in 0 .. 4 : OpponentTook(UnblockedPlayerDamage(roll) \div 4)]_vars
    /\ [][(/\ resolvePvpTurn
           /\ pvpState.playerAction = "Block"
           /\ pvpState.opponentNextMove \in { "Attack", "Power Attack" }) =>
            \E roll \in 0 .. MaxOpponentRoll :
               PlayerTook(TwiceUnblockedOpponentDamage(roll) \div 8)]_vars

\* the novice's attack of 6 has been blocked down to 1 by a level 1 opponent
AttackBlocked ==
    /\ gameState.level = 1
    /\ pvpState.opponentMaxHealth = 80
    /\ pvpState.opponentHealth = 79
    /\ pvpState.isPlayerTurn
    /\ ~pvpState.isGameOver

\* a portal entered outside combat
PortalStep == enterPortal /\ ~gameState.inCombat

\* whether the step crosses the level threshold (a portal's experience is
\* below every threshold, so it crosses one at most)
LevelledUp == gameState'.level = gameState.level + 1

\* the experience the step has handed to the progression model
XpGranted ==
    gameState'.xp + (IF LevelledUp THEN gameState.xpToNextLevel ELSE 0) - gameState.xp

\* the currency the step has added besides the level-up grant of 25 * new level
CurrencyFound ==
    gameState'.diamonds - gameState.diamonds
    - (IF LevelledUp THEN 25 * gameState'.level ELSE 0)

\* C17: outside combat, enter-portal adds currency d with
\* 1 + portalMinBonus <= d <= 5 + portalMaxBonus (besides what a level-up it
\* causes grants) and the experience of exactly 10 times the multipliers, and
\* it does so also when it goes on to start combat; combat is started by no
\* other trigger.
PortalRewardThenCombat ==
    /\ [][PortalStep =>
            /\ gameState'.level = gameState.level \/ LevelledUp
            /\ CurrencyFound >= 1 + gameState.portalMinBonus
            /\ CurrencyFound <= 5 + gameState.portalMaxBonus
            /\ XpGranted = (10 * gameState.xpBonusMultiplier
                               * (IF HasBuff(gameState, "xp_boost") THEN 2 ELSE 1)) \div 10]_vars
    /\ [][(~gameState.inCombat /\ gameState'.inCombat) => enterPortal]_vars

\* a fresh player's first portal: 1 to 5 diamonds, 10 experience, and combat
\* has started after the reward
FirstPortalThenCombat ==
    /\ gameState.name = "Player"
    /\ gameState.level = 1
    /\ gameState.xp = 10
    /\ gameState.diamonds \in 1 .. 5
    /\ gameState.inCombat
    /\ enemy.attackIntervalId \in intervals

\* C18: an attack on a lurker may be dodged, and the dodge changes no state
\* variable; an attack on any other enemy is never without effect; every
\* attack that is not dodged strictly decreases the enemy's health.
LurkerDodgeOrDamage ==
    /\ []((screen = "game" /\ gameState.inCombat /\ enemy.type = "lurker")
            => ENABLED (attackEnemy /\ UNCHANGED vars))
    /\ []((screen = "game" /\ gameState.inCombat /\ enemy.type # "lurker")
            => ~ENABLED (attackEnemy /\ UNCHANGED vars))
    /\ [][(attackEnemy /\ gameState.inCombat) => enemy'.health < enemy.health]_vars

\* a lurker that has been hit and is still alive
LurkerHit ==
    /\ gameState.inCombat
    /\ enemy.type = "lurker"
    /\ enemy.health > 0
    /\ enemy.health < enemy.maxHealth

\* C19: attack-enemy outside combat and enter-portal during combat change no
\* state variable.
NoOpTriggers ==
    [][((attackEnemy /\ ~gameState.inCombat) \/ (enterPortal /\ gameState.inCombat))
         => UNCHANGED vars]_vars

\* in combat, with the portal still there to be clicked
PortalClickableInCombat ==
    /\ gameState.inCombat
    /\ enemy.health > 0
    /\ ENABLED (enterPortal /\ UNCHANGED vars)

\* the threshold t grown i times: each growth is floor(1.5 * t)
RECURSIVE Grown(_, _)
Grown(t, i) == IF i = 0 THEN t ELSE Grown((3 * t) \div 2, i - 1)

\* the experience the first k thresholds from t on take together
RECURSIVE Spanned(_, _)
Spanned(t, k) == IF k = 0 THEN 0 ELSE Spanned(t, k - 1) + Grown(t, k - 1)

\* the number of thresholds, from t on, that the experience xp spans
RECURSIVE ThresholdsSpanned(_, _)
ThresholdsSpanned(t, xp) ==
    IF xp < t THEN 0 ELSE 1 + ThresholdsSpanned((3 * t) \div 2, xp - t)

\* the level-up currency for the k levels above level: 25 times each new level
RECURSIVE LevelUpGrants(_, _)
LevelUpGrants(level, k) ==
    IF k = 0 THEN 0 ELSE LevelUpGrants(level, k - 1) + 25 * (level + k)

\* what one gain of the given amount must do to gameState
GainAsStated(amount) ==
    LET gained == (amount * gameState.xpBonusMultiplier
                     * (IF HasBuff(gameState, "xp_boost") THEN 2 ELSE 1)) \div 10
        reached == gameState.xp + gained
        k == ThresholdsSpanned(gameState.xpToNextLevel, reached)
    IN /\ reached = gameState.xpToNextLevel =>
            /\ gameState'.level = gameState.level + 1
            /\ gameState'.xp = 0
            /\ gameState'.xpToNextLevel = (3 * gameState.xpToNextLevel) \div 2
            /\ gameState'.playerMaxHealth = gameState.playerMaxHealth + HP(15)
            /\ gameState'.playerHealth = gameState'.playerMaxHealth
            /\ gameState'.diamonds = gameState.diamonds + 25 * gameState'.level
       /\ gameState'.level = gameState.level + k
       /\ gameState'.xp = reached - Spanned(gameState.xpToNextLevel, k)
       /\ gameState'.xp < gameState'.xpToNextLevel
       /\ gameState'.xpToNextLevel = Grown(gameState.xpToNextLevel, k)
       /\ gameState'.playerMaxHealth = gameState.playerMaxHealth + HP(15 * k)
       /\ gameState'.playerHealth =
            (IF k = 0 THEN gameState.playerHealth ELSE gameState'.playerMaxHealth)
       /\ gameState'.diamonds = gameState.diamonds + LevelUpGrants(gameState.level, k)

\* C16: a gain that brings xp to exactly xpToNextLevel raises the level by
\* exactly 1, leaves xp at 0, xpToNextLevel at floor(1.5 * old threshold),
\* maxHealth 15 higher, health at the new maxHealth and currency 25 * new level
\* higher; a gain that spans k thresholds raises the level by exactly k in that
\* one evaluation and leaves xp as the remainder below the last threshold.
LevelUpExactAndCascading ==
    [][gainExperience => \E amount \in XpAmounts : GainAsStated(amount)]_vars

\* one gain of 250 has taken a level 1 player with 0 experience over the
\* thresholds 100 and 150, to level 3
TwoLevelsInOneGain ==
    /\ steps = 1
    /\ gameState.level = 3
    /\ gameState.xp = 0
    /\ gameState.xpToNextLevel = 225
    /\ gameState.playerHealth = HP(130)
    /\ gameState.diamonds = 125

\* the daily check has run in a page load that kept the save
DailyCheckRun == reloadPage /\ screen' = "game"

\* C13: whenever the daily check has run on the day after the stamped
\* last-login day, the streak is the streak at the stamp plus 1, however many
\* times the check has run since; when more than one calendar day has passed,
\* or no day is stored, the streak is 1.
StreakFollowsCalendar ==
    /\ [][(DailyCheckRun /\ gameState'.lastLoginDate = << Today(now') - 1 >>)
            => gameState'.streak = stamped.streak + 1]_vars
    /\ [][(DailyCheckRun
             /\ IF gameState'.lastLoginDate = << >> THEN TRUE
                ELSE gameState'.lastLoginDate[1] < Today(now') - 1)
            => gameState'.streak = 1]_vars

\* the currency of the tier with that index, 0 to 6
TierCurrency(index) ==
    CASE index = 0 -> 25
      [] index = 1 -> 40
      [] index = 2 -> 60
      [] index = 3 -> 80
      [] index = 4 -> 100
      [] index = 5 -> 150
      [] index = 6 -> 200

\* C14: a claim grants exactly the currency of tier min(streak - 1, 6), an
\* index within 0..6 whatever the streak, grants the 10-use experience boost
\* for the tier with a bonus only, stamps last-login to today and closes the
\* claim; a claim is never made on a day that is already stamped, and while
\* last-login is today no claim is possible.
ClaimOncePerDay ==
    /\ [][claimDailyReward =>
            LET index == IF gameState.streak - 1 < 6 THEN gameState.streak - 1 ELSE 6
            IN /\ index \in 0 .. 6
               /\ gameState'.diamonds = gameState.diamonds + TierCurrency(index)
               /\ gameState'.activeBuffs =
                    (IF index = 6 THEN SetBuff(gameState.activeBuffs, "xp_boost", 10)
                     ELSE gameState.activeBuffs)
               /\ gameState'.lastLoginDate = << Today(now) >>
               /\ gameState'.streak = gameState.streak
               /\ gameState.lastLoginDate # << Today(now) >>
               /\ storage' = SaveOf(gameState', shopItems)]_vars
    /\ [](gameState.lastLoginDate = << Today(now) >> => ~ENABLED claimDailyReward)

\* the seventh day's reward has been claimed: 200 diamonds and the boost for
\* 10 portals
SeventhDayClaimed ==
    /\ gameState.streak = 7
    /\ gameState.diamonds = 200
    /\ HasBuff(gameState, "xp_boost")
    /\ gameState.activeBuffs["xp_boost"] = 10
    /\ gameState.lastLoginDate = << Today(now) >>
    /\ elements.dailyRewardModal.hidden
    /\ elements.claimRewardBtn.disabled

\* C15: a load discards the save (removes it and shows the login screen)
\* exactly when the last login is more than 48 hours before the load; a save
\* whose last login is less than 48 hours old is kept.
SaveDiscardedAfter48Hours ==
    [][(reloadPage /\ storage # << >>) =>
         ((storage' = << >> /\ screen' = "login")
            <=> now - stamped.at > 48 * 60 * 60 * 1000)]_vars

\* a crystal query: the form is submitted, or initializeAi() settles and the
\* handler that awaited it goes on
CrystalQueryStep == handleCrystalQuery \/ (initializeAi /\ tasks.aiWaiter = "crystal")

\* C20: a crystal query attempted with currency below 20 + 5 * level changes
\* neither the currency, the health, the cooldowns nor the arena state; an
\* arena action taken with currency below 25 is an accepted Attack or Block, or
\* (the Heal) it changes neither the currency, the health, the cooldowns nor
\* the arena state, the recorded player action included, and the turn stays
\* the player's.
NoChangeWithoutFunds ==
    /\ [][(CrystalQueryStep /\ gameState.diamonds < 20 + 5 * gameState.level) =>
            /\ gameState' = gameState
            /\ apiCooldowns' = apiCooldowns
            /\ pvpState' = pvpState]_vars
    /\ [][(handlePvpAction /\ gameState.diamonds < 25) =>
            \/ /\ pvpState'.playerAction \in { "Attack", "Block" }
               /\ ~pvpState'.isPlayerTurn
               /\ gameState' = gameState
            \/ /\ gameState' = gameState
               /\ apiCooldowns' = apiCooldowns
               /\ pvpState' = pvpState]_vars

\* a paid crystal query: the cost is debited and the call of the model awaited
CrystalPaid ==
    CrystalQueryStep /\ Len(tasks'.crystalRequests) = Len(tasks.crystalRequests) + 1

\* C21: a paid crystal query debits 20 + 5 * level; when its call fails (the
\* error is shown) exactly the cost that was debited for it is added back and
\* nothing else of PlayerState changes, whatever has happened while the call
\* was awaited; the currency is never negative.
FailedQueryRefunded ==
    /\ [][CrystalPaid =>
            /\ gameState'.diamonds = gameState.diamonds - (20 + 5 * gameState.level)
            /\ tasks'.crystalRequests =
                 Append(tasks.crystalRequests, 20 + 5 * gameState.level)]_vars
    /\ [][(crystalAnswered /\ elements'.crystalResponseArea.shows = "error") =>
            \E i \in DOMAIN tasks.crystalRequests :
               /\ gameState' = [gameState EXCEPT !.diamonds = @ + tasks.crystalRequests[i]]
               /\ tasks'.crystalRequests = Without(tasks.crystalRequests, i)]_vars
    /\ [](gameState.diamonds >= 0)

\* the query was paid with 30 of 60 diamonds, a portal then led to combat and
\* the player's defeat halved what was left, and the failed call has refunded
\* the 30
RefundAfterDefeat ==
    /\ steps = 4
    /\ elements.crystalResponseArea.shows = "error"
    /\ tasks.crystalRequests = << >>
    /\ ~gameState.inCombat
    /\ enemy.health > 0
    /\ gameState.playerHealth = HP(28)
    /\ gameState.diamonds \in { 45, 47 }

\* C24: in every reachable state the currency is a non-negative integer,
\* whatever the interleaving of portal rewards, purchases, arena heals, crystal
\* queries and refunds, level-up and combat rewards, daily claims and PvE
\* defeat halving.
CurrencyNonNegative == gameState.diamonds \in Nat

\* a first portal found 1 diamond and led to combat, and the player's defeat
\* has halved the 61 diamonds to 30
OddCurrencyHalved ==
    /\ steps = 2
    /\ ~gameState.inCombat
    /\ enemy.health > 0
    /\ gameState.playerHealth = HP(28)
    /\ gameState.diamonds = 30

\* an opponent-generation call is awaited and the run goes on
AwaitingOpponent == tasks.arenaRequests > 0 /\ steps < MaxSteps

\* the arena state of a match that has just started
MatchStarted ==
    /\ pvpState'.isPlayerTurn
    /\ ~pvpState'.isGameOver
    /\ elements'.pvpActions.shown
    /\ pvpState'.playerHealth = gameState.playerHealth
    /\ pvpState'.playerMaxHealth = gameState.playerMaxHealth
    /\ pvpState'.opponentMaxHealth = 80 + 20 * (pvpState'.opponentLevel - 1)
    /\ pvpState'.opponentHealth = pvpState'.opponentMaxHealth
    /\ pvpState'.opponentNextMove \in { "Attack", "Power Attack", "Block" }

\* C22: an arena click with the AI ready and no cooldown running awaits one
\* opponent-generation call; while a call is awaited it can settle both ways,
\* by success and by failure, a call stops being awaited only by settling (or
\* by a page load), and every settling starts a match with the player to
\* move; after a failure the opponent is the Training Golem at the player's
\* level, with maximum health 80 + 20 * (level - 1).
MatchStartsEitherWay ==
    /\ [][(openArenaModal /\ ai /\ apiCooldowns.arena <= now) =>
            /\ tasks'.arenaRequests = tasks.arenaRequests + 1
            /\ ~elements'.pvpModal.hidden]_vars
    /\ [](AwaitingOpponent =>
            /\ ENABLED (opponentGenerated /\ pvpState'.opponentName = "Training Golem")
            /\ ENABLED (opponentGenerated /\ pvpState'.opponentName # "Training Golem"))
    /\ [][tasks'.arenaRequests < tasks.arenaRequests =>
            (opponentGenerated \/ tasks' = NoTasks)]_vars
    /\ [][opponentGenerated => MatchStarted]_vars
    /\ [][(opponentGenerated /\ pvpState'.opponentName = "Training Golem") =>
            /\ pvpState'.opponentLevel = gameState.level
            /\ pvpState'.opponentMaxHealth = 80 + 20 * (gameState.level - 1)]_vars

\* the generation has failed for the veteran: a match against the Training
\* Golem of level 20 with 460 health has started, the player to move
TrainingGolemMatch ==
    /\ tasks.arenaRequests = 0
    /\ pvpState.opponentName = "Training Golem"
    /\ pvpState.opponentLevel = 20
    /\ pvpState.opponentMaxHealth = 460
    /\ pvpState.opponentHealth = 460
    /\ pvpState.isPlayerTurn
    /\ ~pvpState.isGameOver
    /\ elements.pvpActions.shown
    /\ ~elements.pvpModal.hidden

\* a match has started and has not ended
MatchInProgress == elements.pvpActions.shown /\ ~pvpState.isGameOver

\* C23: at most one opponent-generation call is awaited at any time, and an
\* arena click made while a call is awaited or a match is in progress starts
\* no call and leaves the arena as it is.
SingleOpponentRequest ==
    /\ [](tasks.arenaRequests <= 1)
    /\ [][(openArenaModal /\ (tasks.arenaRequests > 0 \/ MatchInProgress))
            => UNCHANGED << tasks, pvpState, elements >>]_vars

\* the damage of an enemy attack as stated, in health points:
\* max(1, floor(d * (1 - damageReduction))) with d = 3 + (enemyLevel - 1), times
\* 1.5 on a special; computed in thousandths
StatedEnemyDamage(special) ==
    LET d == 3 + (enemy.level - 1)
        thousandths == d * (IF special THEN 15 ELSE 10) * (100 - gameState.damageReduction)
    IN Max(1, thousandths \div 1000)

\* what an enemy attack of that kind must do
EnemyAttackAsStated(special) ==
    LET damage == StatedEnemyDamage(special)
    IN /\ damage >= 1
       /\ IF gameState.playerHealth - HP(damage) <= 0
          THEN /\ gameState'.diamonds = gameState.diamonds \div 2
               /\ gameState'.playerHealth = HP((gameState.playerMaxHealth \div 2) \div 4)
               /\ ~gameState'.inCombat
               /\ enemy.attackIntervalId \notin intervals'
               /\ intervals' = {}
          ELSE /\ gameState'.playerHealth = gameState.playerHealth - HP(damage)
               /\ gameState'.diamonds = gameState.diamonds
               /\ gameState'.inCombat
               /\ intervals' = intervals

\* C25: while the player is in combat and the timer runs the enemy is alive,
\* so the timer's attack is not skipped; every attack in combat deals
\* max(1, floor(d * (1 - damageReduction))) >= 1 damage, d = 3 + (enemyLevel - 1),
\* times 1.5 on a special, which only an elemental makes; when the health
\* would become <= 0, in the same step the currency becomes
\* floor(currency / 2), the health floor(0.25 * maxHealth), and combat ends
\* with the timer cancelled.
EnemyAttackDamageAndDefeat ==
    /\ []((gameState.inCombat /\ intervals # {}) => enemy.health > 0)
    /\ [][(enemyAttack /\ gameState.inCombat) =>
            \E special \in BOOLEAN :
               /\ special => enemy.type = "elemental"
               /\ EnemyAttackAsStated(special)]_vars

\* the novice with 3 health found 1 or 5 diamonds in a portal and was defeated
\* by the enemy's first attack: half of 62 or 66 diamonds and 25 of 100 health
\* are left, the timer is gone
DefeatedByFirstAttack ==
    /\ steps = 2
    /\ gameState.level = 1
    /\ ~gameState.inCombat
    /\ enemy.health > 0
    /\ enemy.attackIntervalId = 0
    /\ intervals = {}
    /\ gameState.playerHealth = HP(25)
    /\ gameState.diamonds \in { 31, 33 }

\* the levels the step has gained
LevelsGained == gameState'.level - gameState.level

\* the currency the step has added besides the level-up grants
RewardFound ==
    gameState'.diamonds - gameState.diamonds
    - LevelUpGrants(gameState.level, LevelsGained)

\* the experience the step has handed to the progression model
XpHanded ==
    gameState'.xp + Spanned(gameState.xpToNextLevel, LevelsGained) - gameState.xp

\* C26: a player attack that brings the enemy's health to <= 0 is made in
\* combat and, in the same step, grants a currency reward r with
\* 10L <= r <= 10L + 5L - 1 (L the enemy level), or twice such an r only when
\* enemyDiamondDoubleChance is not 0, grants the experience of 25L times the
\* multipliers, and ends combat with the timer cancelled; an attack that leaves
\* the enemy alive grants nothing; an enemy that has been defeated is out of
\* combat, and no attack takes effect on it.
EnemyDefeatRewardedOnce ==
    /\ [][(attackEnemy /\ enemy'.health <= 0) =>
            /\ gameState.inCombat
            /\ ~gameState'.inCombat
            /\ enemy.attackIntervalId \notin intervals'
            /\ LevelsGained >= 0
            /\ \E r \in (10 * enemy.level) .. (10 * enemy.level + 5 * enemy.level - 1) :
                  \/ RewardFound = r
                  \/ gameState.enemyDiamondDoubleChance # 0 /\ RewardFound = 2 * r
            /\ XpHanded = (25 * enemy.level * gameState.xpBonusMultiplier
                              * (IF HasBuff(gameState, "xp_boost") THEN 2 ELSE 1)) \div 10]_vars
    /\ [][(attackEnemy /\ enemy'.health > 0) => gameState' = gameState]_vars
    /\ []((enemy.name # "" /\ enemy.health <= 0) => ~gameState.inCombat)
    /\ [][attackEnemy => (enemy.health > 0 \/ enemy.name = "")]_vars

\* the owner of the Golem Heart and the Lucky Doubloon has defeated a golem of
\* level 1 with one attack of 11, and the reward of 10 or 14 was doubled
DoubledRewardInOneHit ==
    /\ steps = 2
    /\ gameState.level = 2
    /\ ~gameState.inCombat
    /\ intervals = {}
    /\ enemy.type = "golem"
    /\ enemy.health = -1
    /\ gameState.xp = 35
    /\ gameState.diamonds \in { 96, 100, 104, 108 }

\* handlePvpAction has accepted an action: a resolution is scheduled for it
ActionAccepted ==
    handlePvpAction /\ tasks'.resolveTimers = tasks.resolveTimers + 1

\* C27: an arena action is accepted only on the player's turn of a match that
\* is not over and while no resolution is pending; while a resolution is
\* pending the turn is not the player's, and at most one is pending; each
\* resolution either ends the match or returns the turn to the player with a
\* telegraphed opponent move and the player action cleared.
ArenaTurnProtocol ==
    /\ [][ActionAccepted =>
            /\ pvpState.isPlayerTurn
            /\ ~pvpState.isGameOver
            /\ tasks.resolveTimers = 0
            /\ ~pvpState'.isPlayerTurn
            /\ pvpState'.playerAction \in PlayerActions]_vars
    /\ [](tasks.resolveTimers <= 1)
    /\ [](tasks.resolveTimers > 0 => ~pvpState.isPlayerTurn)
    /\ [][resolvePvpTurn =>
            \/ pvpState'.isGameOver
            \/ /\ pvpState'.isPlayerTurn
               /\ pvpState'.playerAction = "null"
               /\ pvpState'.opponentNextMove \in OpponentMoves]_vars

\* C28: while the arena cooldown stamped by the end of a match has not elapsed
\* no match starts and no opponent-generation call is made.
NoMatchDuringCooldown ==
    /\ [][opponentGenerated => apiCooldowns.arena <= now]_vars
    /\ [][tasks'.arenaRequests > tasks.arenaRequests => apiCooldowns.arena <= now]_vars

\* the arena holds a snapshot of the player's health that the close handler
\* has yet to write back: a match is running, or it is over and the arena
\* modal is still open
ArenaHoldsHealth ==
    \/ MatchInProgress
    \/ pvpState.isGameOver /\ ~elements.pvpModal.hidden

\* C29: between the health snapshot at the start of an arena match and the
\* write-back of the arena health no enemy timer attack changes the player's
\* health or defeats the player.
ArenaAndCombatApart ==
    [][(enemyAttack /\ ArenaHoldsHealth) =>
         /\ gameState'.playerHealth = gameState.playerHealth
         /\ gameState'.inCombat = gameState.inCombat]_vars

\* the experience of a portal entry without the potion
PlainPortalXp == (PORTAL_XP_REWARD * gameState.xpBonusMultiplier) \div 10

\* C30: the purchase of the XP potion sets the xp_boost counter to 5; a portal
\* entry made with the buff present grants twice the experience and lowers the
\* counter by 1, removing the buff when the counter reaches 0; a portal entry
\* made without the buff grants the plain experience and leaves no buff; the
\* buffs change by no other step; a buff that is present has a counter of at
\* least 1.
XpBoostLastsFivePortals ==
    /\ [][(buyItem /\ gameState'.diamonds = gameState.diamonds - cost("potion_xp_boost")) =>
            /\ HasBuff(gameState', "xp_boost")
            /\ gameState'.activeBuffs["xp_boost"] = 5]_vars
    /\ [][(enterPortal /\ HasBuff(gameState, "xp_boost")) =>
            /\ XpHanded = 2 * PlainPortalXp
            /\ IF gameState.activeBuffs["xp_boost"] = 1
               THEN ~HasBuff(gameState', "xp_boost")
               ELSE /\ HasBuff(gameState', "xp_boost")
                    /\ gameState'.activeBuffs["xp_boost"]
                         = gameState.activeBuffs["xp_boost"] - 1]_vars
    /\ [][(enterPortal /\ ~HasBuff(gameState, "xp_boost")) =>
            /\ XpHanded = PlainPortalXp
            /\ ~HasBuff(gameState', "xp_boost")]_vars
    /\ [][gameState'.activeBuffs # gameState.activeBuffs => (enterPortal \/ buyItem)]_vars
    /\ [](HasBuff(gameState, "xp_boost") => gameState.activeBuffs["xp_boost"] >= 1)

\* the potion was bought with the 75 diamonds and five portals, none leading
\* to combat, have each granted 20 experience; the buff is gone
BoostWornOffAfterFivePortals ==
    /\ steps = 6
    /\ gameState.level = 2
    /\ gameState.xp = 100
    /\ gameState.portalMinBonus = 0
    /\ gameState.diamonds \in 5 .. 25
    /\ ~gameState.inCombat
    /\ ~HasBuff(gameState, "xp_boost")

\* the player is back in the world after a defeat by the enemy's timer
RespawnedIdle ==
    /\ ~gameState.inCombat
    /\ intervals = {}
    /\ gameState.playerHealth = HP((gameState.playerMaxHealth \div 2) \div 4)

\* C31: with the enemy's timer weakly fair and the player free to stay idle,
\* every state in combat is followed by a state out of combat, so in combat
\* the timer is scheduled and its next firing takes effect; the timer step
\* that ends a combat leaves the player idle, the timer cancelled and the
\* health at floor(0.25 * maxHealth), and out of combat the portal can be
\* entered as long as the run goes on.
CombatEventuallyEnds ==
    /\ gameState.inCombat ~> ~gameState.inCombat
    /\ [](gameState.inCombat => ENABLED enemyAttackTimer)
    /\ [][(enemyAttackTimer /\ ~gameState'.inCombat) => RespawnedIdle']_vars
    /\ []((~gameState.inCombat /\ screen = "game" /\ steps < MaxSteps) =>
            ENABLED (enterPortal /\ steps' = steps + 1))

====
